---- MODULE Spec2Model ----
(***************************************************************************)
(* Verification model of the voxtype control-and-observability plane:      *)
(*   - the status bus (src/gui/status_bus.rs): one subprocess, fan-out to  *)
(*     the overlay and tray channels, reconnect on failure;                *)
(*   - the record command dispatcher (src/main.rs, send_record_command):   *)
(*     PID-lock resolution, override mailbox files, toggle decision.       *)
(***************************************************************************)
EXTENDS Integers, Sequences, FiniteSets, TLC

(***************************************************************************)
(* Bounds of the model                                                     *)
(***************************************************************************)
\* longest history of bus events (spawns, lines, stream ends, injections)
MaxEvents == 6
\* records after which the status reader is not woken any more
MaxOutput == 3
\* most watch events waiting in the status reader's channel
MaxPending == 2
\* largest sender slice handed to fan_out when it is checked on its own
MaxSenders == 5
MaxTrayLines == 3
MaxOverlayLines == 4
MaxActivations == 10

(***************************************************************************)
(* Status bus: constants of the program                                    *)
(***************************************************************************)
\* start() builds the slice [tx_overlay, tx_tray]
NumConsumers == 2
Consumers == 1..NumConsumers

\* r#"{"class":"stopped"}"#
StoppedLine == "{\"class\":\"stopped\"}"
\* lines `voxtype status --follow --format json` can print; the follow-mode
\* reader prints a stopped record of its own when the daemon is down.
UpstreamLines == {"{\"class\":\"idle\"}", StoppedLine}

VARIABLES
    busPc,        \* position of the status-bus thread in run_bus
    busLog,       \* history of what the bus did, in order
    childAlive,   \* childAlive[i]: the i-th subprocess spawned is still running
    rxAlive,      \* rxAlive[c]: the receiver of consumer c has not been dropped
    chan,         \* chan[c]: lines queued in consumer c's mpsc channel
    received,     \* received[c]: lines consumer c has taken out of its channel
    foPc,         \* fan_out on its own: "call" before the call, "done" after
    foAlive,      \* fan_out on its own: liveness of each sender's receiver
    foChans,      \* fan_out on its own: the queues behind the senders
    foRet,        \* fan_out on its own: the value returned
    config,       \* the loaded configuration: state_file resolved?, profiles
    pidFile,      \* <runtime_dir>/pid
    stateFile,    \* the daemon's state file
    mailbox,      \* mailbox[k]: the override / cancel file of kind k
    signals,      \* signals delivered with kill(), in order
    observed,     \* what the daemon last read from a mailbox file
    inv,          \* inv[p]: the record-command invocation p (locals, position)
    daemonUp,     \* the daemon process exists (/proc/<pid> is there)
    levelFile,    \* audio_level, the sibling of the state file
    watchEvents,  \* watch events waiting in the status reader's channel
    st,           \* the status command: options, locals, position
    out,          \* the records the status command has printed, in order
    lastWake,     \* what the latest wake of follow mode found and did
    fmtPc,        \* where the call of the JSON formatter stands
    fmtIn,        \* the arguments of the call
    fmtOut,       \* the text the call returned
    tray,         \* the tray: its channels, its state, the lines it saw
    ov,           \* the overlay: its data, its window, its timers, its channel
    app           \* the application: the start guards, what was started

busVars == <<busPc, busLog, childAlive, rxAlive, chan, received>>
foVars == <<foPc, foAlive, foChans, foRet>>
recVars == <<config, pidFile, stateFile, mailbox, signals, observed, inv>>
stVars == <<daemonUp, levelFile, watchEvents, st, out, lastWake>>
fmtVars == <<fmtPc, fmtIn, fmtOut>>
guiVars == <<tray, ov, app>>
vars == <<busPc, busLog, childAlive, rxAlive, chan, received,
          foPc, foAlive, foChans, foRet,
          config, pidFile, stateFile, mailbox, signals, observed, inv,
          daemonUp, levelFile, watchEvents, st, out, lastWake,
          fmtPc, fmtIn, fmtOut, tray, ov, app>>

(***************************************************************************)
(* fan_out: send a copy of the line to every sender, in slice order;       *)
(* a send fails exactly when that sender's receiver has been dropped.      *)
(***************************************************************************)
RECURSIVE fan_out_loop(_, _, _, _, _)
fan_out_loop(chs, alive, line, i, any_alive) ==
    IF i > Len(chs)
    THEN [chans |-> chs, ret |-> any_alive]
    ELSE IF alive[i]
         THEN fan_out_loop([chs EXCEPT ![i] = Append(@, line)],
                           alive, line, i + 1, TRUE)
         ELSE fan_out_loop(chs, alive, line, i + 1, any_alive)

\* bug variant: the loop gives up at the first failed send
RECURSIVE fan_out_loop_break(_, _, _, _, _)
fan_out_loop_break(chs, alive, line, i, any_alive) ==
    IF i > Len(chs)
    THEN [chans |-> chs, ret |-> any_alive]
    ELSE IF alive[i]
         THEN fan_out_loop_break([chs EXCEPT ![i] = Append(@, line)],
                                 alive, line, i + 1, TRUE)
         ELSE [chans |-> chs, ret |-> any_alive]

fan_out_break(chs, alive, line) == fan_out_loop_break(chs, alive, line, 1, FALSE)

\* bug variant: any_alive is overwritten by the outcome of each send
RECURSIVE fan_out_loop_last(_, _, _, _, _)
fan_out_loop_last(chs, alive, line, i, any_alive) ==
    IF i > Len(chs)
    THEN [chans |-> chs, ret |-> any_alive]
    ELSE IF alive[i]
         THEN fan_out_loop_last([chs EXCEPT ![i] = Append(@, line)],
                                alive, line, i + 1, TRUE)
         ELSE fan_out_loop_last(chs, alive, line, i + 1, FALSE)

fan_out_last(chs, alive, line) == fan_out_loop_last(chs, alive, line, 1, FALSE)

fan_out(chs, alive, line) == fan_out_loop(chs, alive, line, 1, FALSE)

(***************************************************************************)
(* Status bus: history helpers                                             *)
(***************************************************************************)
Ev(kind, child, text) == [ev |-> kind, child |-> child, text |-> text]

\* the child the bus is reading from: the last one it spawned
CurChild == Len(childAlive)

RECURSIVE SentLines(_)
\* the lines the bus handed to fan_out, in order
SentLines(lg) ==
    IF lg = <<>> THEN <<>>
    ELSE LET rest == SentLines(SubSeq(lg, 1, Len(lg) - 1))
             e == lg[Len(lg)]
         IN IF e.ev \in {"line", "stopped"} THEN Append(rest, e.text) ELSE rest

IsPrefix(s, t) == Len(s) <= Len(t) /\ SubSeq(t, 1, Len(s)) = s

(***************************************************************************)
(* Status bus: start() and run_bus                                         *)
(***************************************************************************)
InitBus ==
    /\ busPc = "spawn"
    /\ busLog = <<>>
    /\ childAlive = <<>>
    /\ rxAlive = [c \in Consumers |-> TRUE]
    /\ chan = [c \in Consumers |-> <<>>]
    /\ received = [c \in Consumers |-> <<>>]

\* Command::spawn() returns Ok: the bus goes on to read the child's stdout
SpawnOk ==
    /\ busPc = "spawn"
    /\ Len(busLog) < MaxEvents
    /\ childAlive' = Append(childAlive, TRUE)
    /\ busLog' = Append(busLog, Ev("spawn", Len(childAlive) + 1, ""))
    /\ busPc' = "read"
    /\ UNCHANGED <<rxAlive, chan, received>>

\* bug variant: a failed spawn ends the bus
SpawnFailGivesUp ==
    /\ busPc = "spawn"
    /\ Len(busLog) < MaxEvents
    /\ busLog' = Append(busLog, Ev("spawnfail", 0, ""))
    /\ busPc' = "returned"
    /\ UNCHANGED <<childAlive, rxAlive, chan, received>>

\* Command::spawn() returns Err: warn, sleep 5 s, continue the loop
SpawnFail ==
    /\ busPc = "spawn"
    /\ Len(busLog) < MaxEvents
    /\ busLog' = Append(busLog, Ev("spawnfail", 0, ""))
    /\ busPc' = "spawn"
    /\ UNCHANGED <<childAlive, rxAlive, chan, received>>

\* reader.lines() yields Ok(l): fan the line out, return if nobody is left
ReadLine(l) ==
    /\ busPc = "read"
    /\ childAlive[CurChild]
    /\ Len(busLog) < MaxEvents
    /\ LET r == fan_out(chan, rxAlive, l)
       IN /\ chan' = r.chans
          /\ busPc' = IF r.ret THEN "read" ELSE "returned"
    /\ busLog' = Append(busLog, Ev("line", CurChild, l))
    /\ UNCHANGED <<childAlive, rxAlive, received>>

\* reader.lines() ends: the child closed its stdout by exiting
ReadEof ==
    /\ busPc = "read"
    /\ childAlive[CurChild]
    /\ Len(busLog) < MaxEvents
    /\ childAlive' = [childAlive EXCEPT ![CurChild] = FALSE]
    /\ busLog' = Append(busLog, Ev("end", CurChild, "eof"))
    /\ busPc' = "notify"
    /\ UNCHANGED <<rxAlive, chan, received>>

\* reader.lines() yields Err (I/O error, or a line that is not UTF-8): break.
\* The reader is dropped; nothing kills or waits for the child.
ReadErr ==
    /\ busPc = "read"
    /\ childAlive[CurChild]
    /\ Len(busLog) < MaxEvents
    /\ busLog' = Append(busLog, Ev("end", CurChild, "err"))
    /\ busPc' = "notify"
    /\ UNCHANGED <<childAlive, rxAlive, chan, received>>

\* bug variant: the loop goes round without injecting the stopped line
NotifyStoppedSkipped ==
    /\ busPc = "notify"
    /\ busPc' = "spawn"
    /\ UNCHANGED <<busLog, childAlive, rxAlive, chan, received>>

\* after the for loop: fan out the synthetic stopped line, return if nobody
\* is left, otherwise sleep 2 s and go round the loop
NotifyStopped ==
    /\ busPc = "notify"
    /\ Len(busLog) < MaxEvents
    /\ LET r == fan_out(chan, rxAlive, StoppedLine)
       IN /\ chan' = r.chans
          /\ busPc' = IF r.ret THEN "spawn" ELSE "returned"
    /\ busLog' = Append(busLog, Ev("stopped", 0, StoppedLine))
    /\ UNCHANGED <<childAlive, rxAlive, received>>

\* a child the bus no longer reads from exits on its own (its next write to
\* the closed pipe fails)
ChildExit(i) ==
    /\ i \in 1..Len(childAlive)
    /\ childAlive[i]
    /\ i # CurChild \/ busPc # "read"
    /\ childAlive' = [childAlive EXCEPT ![i] = FALSE]
    /\ UNCHANGED <<busPc, busLog, rxAlive, chan, received>>

\* bug variant: a consumer that cannot work through a backlog
ConsumerRecvNoBacklog(c) ==
    /\ rxAlive[c]
    /\ Len(chan[c]) = 1
    /\ received' = [received EXCEPT ![c] = Append(@, Head(chan[c]))]
    /\ chan' = [chan EXCEPT ![c] = Tail(@)]
    /\ UNCHANGED <<busPc, busLog, childAlive, rxAlive>>

\* a consumer takes the next line out of its channel (recv / try_recv)
ConsumerRecv(c) ==
    /\ rxAlive[c]
    /\ chan[c] # <<>>
    /\ received' = [received EXCEPT ![c] = Append(@, Head(chan[c]))]
    /\ chan' = [chan EXCEPT ![c] = Tail(@)]
    /\ UNCHANGED <<busPc, busLog, childAlive, rxAlive>>

\* a consumer drops its receiver; the lines still queued go with it
ConsumerDrop(c) ==
    /\ rxAlive[c]
    /\ rxAlive' = [rxAlive EXCEPT ![c] = FALSE]
    /\ chan' = [chan EXCEPT ![c] = <<>>]
    /\ UNCHANGED <<busPc, busLog, childAlive, received>>

NextBus ==
    \/ SpawnOk
    \/ SpawnFail
    \/ \E l \in UpstreamLines : ReadLine(l)
    \/ ReadEof
    \/ ReadErr
    \/ NotifyStopped
    \/ \E i \in 1..MaxEvents : ChildExit(i)
    \/ \E c \in Consumers : ConsumerRecv(c)
    \/ \E c \in Consumers : ConsumerDrop(c)

(***************************************************************************)
(* Status bus: properties                                                  *)
(***************************************************************************)
AllDisconnected == \A c \in Consumers : ~rxAlive[c]
LiveChildren == {i \in 1..Len(childAlive) : childAlive[i]}

\* C1: while a consumer's receiver is alive, what it has received followed by
\* what is still queued for it is exactly the sequence of lines the bus read
\* and injected, in that order (nothing lost, duplicated or reordered); what
\* a consumer received before dropping its receiver is a prefix of it.
C1_ChannelOrder ==
    \A c \in Consumers :
        IF rxAlive[c]
        THEN received[c] \o chan[c] = SentLines(busLog)
        ELSE IsPrefix(received[c], SentLines(busLog))

\* one consumer has taken a line and the injected stopped line while the
\* other lags behind with both still queued
C1_Witness ==
    /\ rxAlive[1] /\ rxAlive[2]
    /\ Len(busLog) >= 4
    /\ busLog[2].ev = "line" /\ busLog[4].ev = "stopped"
    /\ Len(received[1]) = 2
    /\ received[2] = <<>> /\ Len(chan[2]) = 2

C2_LogShape ==
    \A i \in 1..Len(busLog) :
        /\ busLog[i].ev = "end" =>
              /\ IF i = Len(busLog)
                 THEN busPc = "notify"
                 ELSE /\ busLog[i + 1].ev = "stopped"
                      /\ i + 2 <= Len(busLog) =>
                            busLog[i + 2].ev \in {"spawn", "spawnfail"}
              /\ \A j \in (i + 1)..Len(busLog) :
                    busLog[j].child # busLog[i].child
        /\ busLog[i].ev = "stopped" => i > 1 /\ busLog[i - 1].ev = "end"

C2_Delivery ==
    (busPc = "notify" /\ busPc' # "notify") =>
        \A c \in Consumers :
            rxAlive[c] => chan'[c] = Append(chan[c], StoppedLine)

\* C2: every end of the subprocess's stream (end of file or read error) is
\* followed by exactly one injected stopped line, which comes after every line
\* read from that subprocess and before the next spawn attempt, and that line
\* is appended to the channel of every consumer that is alive.
C2_OneStoppedPerStreamEnd == []C2_LogShape /\ [][C2_Delivery]_vars

\* a stream ended by a read error, the stopped line delivered to both
\* consumers, then the next spawn
C2_Witness ==
    /\ Len(busLog) >= 4
    /\ busLog[2].ev = "end" /\ busLog[2].text = "err"
    /\ busLog[3].ev = "stopped"
    /\ busLog[4].ev = "spawn"
    /\ \A c \in Consumers : rxAlive[c] /\ received[c] \o chan[c] = <<StoppedLine>>

\* C4: once every receiver has been dropped, a bus that has spawned a
\* subprocess spawns no further one.
C4_NoSpawnWithoutConsumers ==
    [][(AllDisconnected /\ childAlive # <<>>) =>
            Len(childAlive') = Len(childAlive)]_vars

\* C5: at most one subprocess spawned by the bus is running at any moment.
C5_SingleSubprocess == Cardinality(LiveChildren) <= 1

\* C37: once the bus has returned because every consumer disconnected, no
\* subprocess it spawned is still running.
C37_NoSubprocessLeftBehind ==
    (busPc = "returned" /\ AllDisconnected) => LiveChildren = {}

\* the tray is the second consumer of the slice [tx_overlay, tx_tray]
Tray == 2

\* json.get("class") of the lines of the model
LineClass(l) ==
    CASE l = StoppedLine -> "stopped"
      [] l = "{\"class\":\"idle\"}" -> "idle"
      [] OTHER -> ""

\* TrayState::from_class
from_class(class) ==
    CASE class = "recording" -> "Recording"
      [] class = "transcribing" -> "Transcribing"
      [] class = "idle" -> "Idle"
      [] OTHER -> "Stopped"

\* tray.state after monitor_state has processed the lines, starting from
\* TrayState::Idle; a line without a class leaves it as it is
RECURSIVE TrayShown(_)
TrayShown(lines) ==
    IF lines = <<>> THEN "Idle"
    ELSE LET l == lines[Len(lines)]
         IN IF LineClass(l) # "" THEN from_class(LineClass(l))
            ELSE TrayShown(SubSeq(lines, 1, Len(lines) - 1))

\* consumer c has processed every line the bus sent
CaughtUp(c) == chan[c] = <<>> /\ received[c] = SentLines(busLog)

\* what the last line sent carries
LastSentClass == LineClass(SentLines(busLog)[Len(SentLines(busLog))])

Sends ==
    /\ Len(busLog') = Len(busLog) + 1
    /\ busLog'[Len(busLog')].ev \in {"line", "stopped"}

\* the line reaches every consumer that is connected, whatever the others
\* are (dropped, before or after it in the slice) and however many lines
\* wait in any channel; nothing is taken from or put in front of a channel
C29_SendReachesEveryLive ==
    Sends =>
        \A c \in Consumers :
            chan'[c] = IF rxAlive[c]
                       THEN Append(chan[c], busLog'[Len(busLog')].text)
                       ELSE chan[c]

\* the bus can always make its next send: no channel is ever full
C29_SendNeverBlocks ==
    (busPc = "notify" /\ Len(busLog) < MaxEvents) =>
        ENABLED (NotifyStopped /\ UNCHANGED <<foVars, recVars, stVars, fmtVars>>)

\* C29: a send never waits for a consumer and reaches every connected
\* consumer whatever the state and position of the others; each consumer
\* reads at its own pace
C29_ConsumersIndependent ==
    /\ []C29_SendNeverBlocks
    /\ [][C29_SendReachesEveryLive]_vars

\* the first consumer of the slice was dropped and the second still got a
\* line sent after that, while it lags behind with all the lines waiting
C29_Witness ==
    /\ ~rxAlive[1] /\ rxAlive[2]
    /\ received[1] # <<>>
    /\ received[2] = <<>>
    /\ Len(chan[2]) > Len(received[1]) + 1
    /\ Len(chan[2]) >= 4
    /\ busPc = "notify"

\* the bus has returned only if no consumer is left
BusReturnsOnlyWithoutConsumers == busPc = "returned" => AllDisconnected

\* every line put in a channel was read from the subprocess or is the
\* synthetic stopped line
OnlyStoppedIsSynthetic ==
    /\ \A i \in 1..Len(busLog) :
          busLog[i].ev = "stopped" => busLog[i].text = StoppedLine
    /\ \A c \in Consumers :
          LET got == received[c] \o chan[c]
          IN \A k \in 1..Len(got) :
                \E i \in 1..Len(busLog) :
                    busLog[i].ev \in {"line", "stopped"} /\ busLog[i].text = got[k]

\* the failure logged at position n is followed by another spawn attempt
RetriedAfter(n) ==
    \E m \in (n + 1)..Len(busLog) : busLog[m].ev \in {"spawn", "spawnfail"}

\* C27: after a spawn failure or the end of the stream (error or exit) the
\* bus attempts another spawn unless every consumer is gone, it returns
\* only when no consumer is left, and the one line it makes up is stopped
C27_NeverGivesUp ==
    /\ [](BusReturnsOnlyWithoutConsumers /\ OnlyStoppedIsSynthetic)
    /\ \A n \in 1..(MaxEvents - 2) :
          (Len(busLog) >= n /\ busLog[n].ev \in {"spawnfail", "end"})
              ~> (RetriedAfter(n) \/ busPc = "returned")

C27_Witness ==
    /\ Len(busLog) >= 5
    /\ busLog[1].ev = "spawnfail"
    /\ busLog[2].ev = "spawn"
    /\ busLog[3].ev = "end" /\ busLog[3].text = "err"
    /\ busLog[4].ev = "stopped"
    /\ busLog[5].ev = "spawn"
    /\ ~AllDisconnected


(***************************************************************************)
(* fan_out on its own, over every slice of up to MaxSenders senders        *)
(***************************************************************************)
RECURSIVE BoolSeqs(_)
BoolSeqs(n) ==
    IF n = 0 THEN {<<>>}
    ELSE LET shorter == BoolSeqs(n - 1)
         IN shorter \cup {Append(s, b) : s \in {t \in shorter : Len(t) = n - 1},
                                         b \in BOOLEAN}

InitFanOut ==
    /\ foPc = "call"
    /\ foAlive \in BoolSeqs(MaxSenders)
    /\ foChans = [i \in 1..Len(foAlive) |-> <<>>]
    /\ foRet = FALSE

FanOutCall ==
    /\ foPc = "call"
    /\ LET r == fan_out(foChans, foAlive, "hello")
       IN /\ foChans' = r.chans
          /\ foRet' = r.ret
    /\ foPc' = "done"
    /\ UNCHANGED foAlive

\* C3: fan_out returns true iff at least one sender has a live receiver
\* (false for an empty slice and when every receiver was dropped).
C3_FanOutReturn ==
    foPc = "done" => (foRet <=> \E i \in 1..Len(foAlive) : foAlive[i])

\* a partial disconnect: the last receiver is gone, fan_out returned true
C3_Witness ==
    /\ foPc = "done"
    /\ Len(foAlive) >= 2
    /\ foAlive[1] /\ ~foAlive[Len(foAlive)]
    /\ foRet

(***************************************************************************)
(* Record command dispatcher: texts, files, options                        *)
(***************************************************************************)
\* texts are sequences of characters
S_recording == <<"r", "e", "c", "o", "r", "d", "i", "n", "g">>
S_idle == <<"i", "d", "l", "e">>
S_cancel == <<"c", "a", "n", "c", "e", "l">>
S_type == <<"t", "y", "p", "e">>
S_clipboard == <<"c", "l", "i", "p", "b", "o", "a", "r", "d">>
S_paste == <<"p", "a", "s", "t", "e">>
S_file == <<"f", "i", "l", "e">>
S_base == <<"b", "a", "s", "e">>
S_dev == <<"d", "e", "v">>
S_foo == <<"f", "o", "o">>
S_path == <<"/", "o">>

Whitespace == {" ", "\n", "\t", "\r"}
Digits == <<"0", "1", "2", "3", "4", "5", "6", "7", "8", "9">>

RECURSIVE TrimStart(_)
TrimStart(s) ==
    IF s # <<>> /\ Head(s) \in Whitespace THEN TrimStart(Tail(s)) ELSE s

RECURSIVE TrimEnd(_)
TrimEnd(s) ==
    IF s # <<>> /\ s[Len(s)] \in Whitespace
    THEN TrimEnd(SubSeq(s, 1, Len(s) - 1))
    ELSE s

\* str::trim
Trim(s) == TrimEnd(TrimStart(s))

DigitValue(ch) == (CHOOSE i \in 1..10 : Digits[i] = ch) - 1
IsDigit(ch) == \E i \in 1..10 : Digits[i] = ch

RECURSIVE DecimalValue(_)
DecimalValue(s) ==
    IF s = <<>> THEN 0
    ELSE 10 * DecimalValue(SubSeq(s, 1, Len(s) - 1)) + DigitValue(s[Len(s)])

\* pid_str.trim().parse::<i32>() on the unsigned decimal texts of the model
ParsePid(s) ==
    LET t == Trim(s)
    IN IF t # <<>> /\ \A i \in 1..Len(t) : IsDigit(t[i])
       THEN [ok |-> TRUE, val |-> DecimalValue(t)]
       ELSE [ok |-> FALSE, val |-> 0]

File(data) == [exists |-> TRUE, data |-> data]
NoFile == [exists |-> FALSE, data |-> <<>>]

Some(v) == [some |-> TRUE, val |-> v]
None == [some |-> FALSE, val |-> <<>>]

\* the mailbox files under the runtime directory
Kinds == {"cancel", "output_mode_override", "model_override", "profile_override"}

\* pids of the processes that exist (the daemon)
LivePids == {42}

\* contents of the pid file: the daemon's pid, the pid of a process that is
\* gone, and text that is no number
PidFiles == {NoFile, File(<<"4", "2", "\n">>), File(<<"7">>), File(<<"x">>)}

\* contents of the state file
StateTexts == {<<>>, S_idle, S_recording, S_recording \o <<"\n">>,
               <<" ">> \o S_recording, <<"r", "e", "c">>}
StateFiles == {NoFile} \cup {File(t) : t \in StateTexts}

\* the invocations that can run side by side
Procs == {1, 2}

\* command lines of `voxtype record`; output_mode is the option's variant
\* name, "None" when --output-mode was not given
OverrideArgs ==
    [action : {"start", "stop", "toggle"},
     output_mode : {"None", "Clipboard"},
     file_path : {None},
     model : {None, Some(S_base)},
     profile : {None, Some(S_dev), Some(S_foo)}]
    \cup
    [action : {"start", "stop", "toggle"},
     output_mode : {"File"},
     file_path : {None, Some(S_path)},
     model : {None, Some(S_base)},
     profile : {None, Some(S_dev), Some(S_foo)}]

CancelArgs ==
    [action |-> "cancel", output_mode |-> "None", file_path |-> None,
     model |-> None, profile |-> None]

RecordArgs == OverrideArgs \cup {CancelArgs}

\* the text written to output_mode_override
ModeStr(a) ==
    CASE a.output_mode = "Type" -> S_type
      [] a.output_mode = "Clipboard" -> S_clipboard
      [] a.output_mode = "Paste" -> S_paste
      [] a.output_mode = "File" ->
            IF a.file_path.some /\ a.file_path.val # <<>>
            THEN S_file \o <<":">> \o a.file_path.val
            ELSE S_file

\* the option that asks for the mailbox file of kind k
Requested(a, k) ==
    CASE k = "cancel" -> a.action = "cancel"
      [] k = "output_mode_override" -> a.output_mode # "None"
      [] k = "model_override" -> a.model.some
      [] k = "profile_override" -> a.profile.some

\* the text an invocation writes to the mailbox file of kind k
Content(a, k) ==
    CASE k = "cancel" -> S_cancel
      [] k = "output_mode_override" -> ModeStr(a)
      [] k = "model_override" -> a.model.val
      [] k = "profile_override" -> a.profile.val

\* where the code goes after the mailbox file of kind k
AfterKind(k) ==
    CASE k = "cancel" -> "exit"
      [] k = "output_mode_override" -> "model_override"
      [] k = "model_override" -> "profile_override"
      [] k = "profile_override" -> "signal"

\* config.get_profile(name).is_some()
HasProfile(name) == name \in config.profiles

\* write(2) of data at offset 0 of a file holding old
WriteAt0(old, data) ==
    IF Len(data) >= Len(old) THEN data
    ELSE data \o SubSeq(old, Len(data) + 1, Len(old))

Fresh(a) ==
    [pc |-> "check_pid", args |-> a, pid |-> 0, fd |-> "closed",
     orphan |-> FALSE, stateSeen |-> NoFile, current_state |-> <<>>,
     signal |-> "none",
     exit |-> -1, report |-> "", lockSeen |-> "unchecked",
     removedLock |-> FALSE, wrote |-> {}]

\* an invocation that was never launched
Off == [Fresh(CancelArgs) EXCEPT !.pc = "off"]

Exit(r, code, msg) == [r EXCEPT !.pc = "exit", !.exit = code, !.report = msg]

(***************************************************************************)
(* send_record_command, one step per system call                           *)
(***************************************************************************)
\* bug variant: a missing pid file is not treated as an error
CheckPidFileLenient(p) ==
    /\ inv[p].pc = "check_pid"
    /\ inv' = [inv EXCEPT ![p] =
                 IF pidFile.exists
                 THEN [@ EXCEPT !.pc = "read_pid", !.lockSeen = "present"]
                 ELSE Exit([@ EXCEPT !.lockSeen = "absent"], 0, "")]
    /\ UNCHANGED <<config, pidFile, stateFile, mailbox, signals, observed>>

\* if !pid_file.exists() { ...; exit(1) }
CheckPidFile(p) ==
    /\ inv[p].pc = "check_pid"
    /\ inv' = [inv EXCEPT ![p] =
                 IF pidFile.exists
                 THEN [@ EXCEPT !.pc = "read_pid", !.lockSeen = "present"]
                 ELSE Exit([@ EXCEPT !.lockSeen = "absent"], 1, "not running")]
    /\ UNCHANGED <<config, pidFile, stateFile, mailbox, signals, observed>>

\* read_to_string(&pid_file)? and pid_str.trim().parse()?
ReadPidFile(p) ==
    /\ inv[p].pc = "read_pid"
    /\ inv' = [inv EXCEPT ![p] =
                 IF ~pidFile.exists
                 THEN Exit(@, 1, "failed to read PID file")
                 ELSE IF ~ParsePid(pidFile.data).ok
                 THEN Exit(@, 1, "invalid PID in file")
                 ELSE [@ EXCEPT !.pc = "probe",
                                !.pid = ParsePid(pidFile.data).val]]
    /\ UNCHANGED <<config, pidFile, stateFile, mailbox, signals, observed>>

\* bug variant: the stale pid file is left in place
ProbeDaemonKeepsLock(p) ==
    /\ inv[p].pc = "probe"
    /\ inv' = [inv EXCEPT ![p] =
                 IF inv[p].pid \in LivePids
                 THEN [@ EXCEPT !.pc = IF inv[p].args.action = "cancel"
                                       THEN "cancel" ELSE "output_mode_override"]
                 ELSE Exit(@, 1, "not running (stale PID file removed)")]
    /\ UNCHANGED <<config, pidFile, stateFile, mailbox, signals, observed>>

\* if kill(pid, None).is_err() { remove_file(&pid_file); ...; exit(1) }
ProbeDaemon(p) ==
    /\ inv[p].pc = "probe"
    /\ IF inv[p].pid \in LivePids
       THEN /\ inv' = [inv EXCEPT ![p].pc =
                         IF inv[p].args.action = "cancel"
                         THEN "cancel" ELSE "output_mode_override"]
            /\ UNCHANGED pidFile
       ELSE /\ pidFile' = NoFile
            /\ inv' = [inv EXCEPT ![p] =
                         Exit([@ EXCEPT !.removedLock = TRUE], 1,
                              "not running (stale PID file removed)")]
    /\ UNCHANGED <<config, stateFile, mailbox, signals, observed>>

\* an `if let Some(..)` around a mailbox write whose option was not given
SkipOverride(p) ==
    /\ inv[p].pc \in Kinds
    /\ ~Requested(inv[p].args, inv[p].pc)
    /\ inv' = [inv EXCEPT ![p].pc = AfterKind(inv[p].pc)]
    /\ UNCHANGED <<config, pidFile, stateFile, mailbox, signals, observed>>

\* if config.get_profile(profile_name).is_none() { ...; exit(1) }
RejectProfile(p) ==
    /\ inv[p].pc = "profile_override"
    /\ inv[p].args.profile.some
    /\ ~HasProfile(inv[p].args.profile.val)
    /\ inv' = [inv EXCEPT ![p] = Exit(@, 1, "profile not found")]
    /\ UNCHANGED <<config, pidFile, stateFile, mailbox, signals, observed>>

\* the write may be attempted: the option was given, and a profile is known
MayWrite(p) ==
    /\ inv[p].pc \in Kinds
    /\ Requested(inv[p].args, inv[p].pc)
    /\ inv[p].pc = "profile_override" => HasProfile(inv[p].args.profile.val)

\* std::fs::write, first half: open the file with create + truncate
WriteOpen(p) ==
    /\ MayWrite(p)
    /\ inv[p].fd = "closed"
    /\ mailbox' = [mailbox EXCEPT ![inv[p].pc] = File(<<>>)]
    /\ inv' = [inv EXCEPT ![p].fd = "open", ![p].orphan = FALSE,
                          ![p].wrote = @ \cup {inv[p].pc}]
    /\ UNCHANGED <<config, pidFile, stateFile, signals, observed>>

\* bug variant: the error of the write is dropped and the code carries on
WriteFailIgnored(p) ==
    /\ MayWrite(p)
    /\ inv[p].fd = "closed"
    /\ inv' = [inv EXCEPT ![p] =
                 IF inv[p].pc = "cancel"
                 THEN Exit(@, 0, "")
                 ELSE [@ EXCEPT !.pc = AfterKind(inv[p].pc)]]
    /\ UNCHANGED <<config, pidFile, stateFile, mailbox, signals, observed>>

\* std::fs::write fails to open the file: map_err(..)? leaves with an error
WriteFail(p) ==
    /\ MayWrite(p)
    /\ inv[p].fd = "closed"
    /\ inv' = [inv EXCEPT ![p] = Exit(@, 1, "failed to write")]
    /\ UNCHANGED <<config, pidFile, stateFile, mailbox, signals, observed>>

\* bug variant: cancel falls through to the signal path and sends stop
WriteDataCancelSignals(p) ==
    /\ inv[p].pc \in Kinds
    /\ inv[p].fd = "open"
    /\ mailbox' = IF inv[p].orphan THEN mailbox
                  ELSE [mailbox EXCEPT ![inv[p].pc] =
                          File(WriteAt0(@.data, Content(inv[p].args, inv[p].pc)))]
    /\ inv' = [inv EXCEPT ![p] =
                 IF inv[p].pc = "cancel"
                 THEN [@ EXCEPT !.fd = "closed", !.pc = "kill",
                                !.signal = "SIGUSR2"]
                 ELSE [@ EXCEPT !.fd = "closed", !.pc = AfterKind(inv[p].pc)]]
    /\ UNCHANGED <<config, pidFile, stateFile, signals, observed>>

\* std::fs::write, second half: write_all the text at offset 0, close
WriteData(p) ==
    /\ inv[p].pc \in Kinds
    /\ inv[p].fd = "open"
    /\ mailbox' = IF inv[p].orphan THEN mailbox
                  ELSE [mailbox EXCEPT ![inv[p].pc] =
                          File(WriteAt0(@.data, Content(inv[p].args, inv[p].pc)))]
    /\ inv' = [inv EXCEPT ![p] =
                 IF inv[p].pc = "cancel"
                 THEN Exit([@ EXCEPT !.fd = "closed"], 0, "")
                 ELSE [@ EXCEPT !.fd = "closed", !.pc = AfterKind(inv[p].pc)]]
    /\ UNCHANGED <<config, pidFile, stateFile, signals, observed>>

\* let signal = match &action { Start => SIGUSR1, Stop => SIGUSR2, .. }
ChooseSignal(p) ==
    /\ inv[p].pc = "signal"
    /\ inv[p].args.action \in {"start", "stop"}
    /\ inv' = [inv EXCEPT ![p].pc = "kill",
                          ![p].signal = IF inv[p].args.action = "start"
                                        THEN "SIGUSR1" ELSE "SIGUSR2"]
    /\ UNCHANGED <<config, pidFile, stateFile, mailbox, signals, observed>>

\* Toggle with resolve_state_file() == None: exit(1)
ToggleNoStateFile(p) ==
    /\ inv[p].pc = "signal"
    /\ inv[p].args.action = "toggle"
    /\ ~config.state_file
    /\ inv' = [inv EXCEPT ![p] = Exit(@, 1, "state_file not configured")]
    /\ UNCHANGED <<config, pidFile, stateFile, mailbox, signals, observed>>

\* bug variant: the text is compared as it was read
ToggleSignalUntrimmed(current_state) ==
    IF current_state = S_recording THEN "SIGUSR2" ELSE "SIGUSR1"

\* the signal a toggle picks for the text it read
ToggleSignal(current_state) ==
    IF Trim(current_state) = S_recording THEN "SIGUSR2" ELSE "SIGUSR1"

\* bug variant: the toggle writes the state it is about to ask for
ToggleReadStateWrites(p) ==
    /\ inv[p].pc = "signal"
    /\ inv[p].args.action = "toggle"
    /\ config.state_file
    /\ LET current_state == IF stateFile.exists THEN stateFile.data ELSE S_idle
       IN /\ inv' = [inv EXCEPT ![p].pc = "kill",
                                ![p].stateSeen = stateFile,
                                ![p].current_state = current_state,
                                ![p].signal = ToggleSignal(current_state)]
          /\ stateFile' = IF ToggleSignal(current_state) = "SIGUSR2"
                          THEN File(S_idle) ELSE File(S_recording)
    /\ UNCHANGED <<config, pidFile, mailbox, signals, observed>>

\* Toggle: read_to_string(&state_file).unwrap_or("idle"), then compare
ToggleReadState(p) ==
    /\ inv[p].pc = "signal"
    /\ inv[p].args.action = "toggle"
    /\ config.state_file
    /\ LET current_state == IF stateFile.exists THEN stateFile.data ELSE S_idle
       IN inv' = [inv EXCEPT ![p].pc = "kill",
                             ![p].stateSeen = stateFile,
                             ![p].current_state = current_state,
                             ![p].signal = ToggleSignal(current_state)]
    /\ UNCHANGED <<config, pidFile, stateFile, mailbox, signals, observed>>

\* kill(Pid::from_raw(pid), signal)?; Ok(())
SendSignal(p) ==
    /\ inv[p].pc = "kill"
    /\ signals' = Append(signals, [from |-> p, to |-> inv[p].pid,
                                   sig |-> inv[p].signal])
    /\ inv' = [inv EXCEPT ![p] = Exit(@, 0, "")]
    /\ UNCHANGED <<config, pidFile, stateFile, mailbox, observed>>

(***************************************************************************)
(* The daemon, as far as the dispatcher's files are concerned              *)
(***************************************************************************)
\* the daemon rewrites (or removes) its state file
DaemonWriteState(f) ==
    /\ f \in StateFiles
    /\ f # stateFile
    /\ \E p \in Procs : inv[p].pc \notin {"off", "exit"}
    /\ stateFile' = f
    /\ UNCHANGED <<config, pidFile, mailbox, signals, observed, inv>>

\* the daemon reads a mailbox file and removes it; a writer that still has
\* the file open keeps writing to the unlinked file
DaemonConsume(k) ==
    /\ mailbox[k].exists
    /\ observed' = [kind |-> k, data |-> mailbox[k].data]
    /\ mailbox' = [mailbox EXCEPT ![k] = NoFile]
    /\ inv' = [p \in Procs |->
                 IF inv[p].pc = k /\ inv[p].fd = "open"
                 THEN [inv[p] EXCEPT !.orphan = TRUE]
                 ELSE inv[p]]
    /\ UNCHANGED <<config, pidFile, stateFile, signals>>

InitRecordEnv ==
    /\ config \in [state_file : BOOLEAN, profiles : {{S_dev}}]
    /\ pidFile \in PidFiles
    /\ stateFile \in StateFiles
    /\ mailbox = [k \in Kinds |-> NoFile]
    /\ signals = <<>>
    /\ observed = [kind |-> "none", data |-> <<>>]

\* one invocation of `voxtype record`
InitRecord ==
    /\ InitRecordEnv
    /\ \E a \in RecordArgs : inv = [p \in Procs |-> IF p = 1 THEN Fresh(a) ELSE Off]

\* command lines for two invocations launched side by side
RaceArgs ==
    {[CancelArgs EXCEPT !.action = "start", !.output_mode = "Clipboard"],
     [CancelArgs EXCEPT !.action = "stop", !.output_mode = "File",
                        !.file_path = Some(S_path)],
     [CancelArgs EXCEPT !.action = "start", !.model = Some(S_base)],
     [CancelArgs EXCEPT !.action = "toggle", !.profile = Some(S_foo)],
     [CancelArgs EXCEPT !.action = "toggle"],
     CancelArgs}

\* two invocations of `voxtype record` against a running daemon
InitRace ==
    /\ config \in [state_file : BOOLEAN, profiles : {{S_dev}}]
    /\ pidFile = File(<<"4", "2", "\n">>)
    /\ stateFile \in {File(S_idle), File(S_recording)}
    /\ mailbox = [k \in Kinds |-> NoFile]
    /\ signals = <<>>
    /\ observed = [kind |-> "none", data |-> <<>>]
    /\ inv \in [Procs -> {Fresh(a) : a \in RaceArgs}]

RecordIdle ==
    /\ config = [state_file |-> TRUE, profiles |-> {S_dev}]
    /\ pidFile = NoFile
    /\ stateFile = NoFile
    /\ mailbox = [k \in Kinds |-> NoFile]
    /\ signals = <<>>
    /\ observed = [kind |-> "none", data |-> <<>>]
    /\ inv = [p \in Procs |-> Off]

NextRecord ==
    \/ \E p \in Procs : CheckPidFile(p)
    \/ \E p \in Procs : ReadPidFile(p)
    \/ \E p \in Procs : ProbeDaemon(p)
    \/ \E p \in Procs : SkipOverride(p)
    \/ \E p \in Procs : RejectProfile(p)
    \/ \E p \in Procs : WriteOpen(p)
    \/ \E p \in Procs : WriteFail(p)
    \/ \E p \in Procs : WriteData(p)
    \/ \E p \in Procs : ChooseSignal(p)
    \/ \E p \in Procs : ToggleNoStateFile(p)
    \/ \E p \in Procs : ToggleReadState(p)
    \/ \E p \in Procs : SendSignal(p)
    \/ \E f \in StateFiles : DaemonWriteState(f)
    \/ \E k \in Kinds : DaemonConsume(k)

(***************************************************************************)
(* Record command dispatcher: properties                                   *)
(***************************************************************************)
SignalsFrom(p) == {i \in 1..Len(signals) : signals[i].from = p}
Finished(p) == inv[p].pc = "exit"

\* the invocation read a pid from the lock file and no such process exists
FoundStaleLock(p) ==
    Finished(p) /\ inv[p].pid # 0 /\ inv[p].pid \notin LivePids

C7_AbsentLockNoAction ==
    \A p \in Procs :
        Finished(p) /\ inv[p].lockSeen = "absent" =>
            /\ inv[p].exit = 1
            /\ inv[p].report = "not running"
            /\ SignalsFrom(p) = {}
            /\ inv[p].wrote = {}
            /\ ~inv[p].removedLock
            /\ \A k \in Kinds : ~mailbox[k].exists

\* a toggle with every override option, and no pid file
C7_Witness ==
    /\ Finished(1) /\ inv[1].lockSeen = "absent"
    /\ inv[1].args.action = "toggle"
    /\ inv[1].args.output_mode # "None"
    /\ inv[1].args.model.some /\ inv[1].args.profile.some

\* a toggle that went all the way to kill()
ToggleSignalled(p) ==
    Finished(p) /\ inv[p].args.action = "toggle" /\ inv[p].exit = 0

\* s is the text `recording` with nothing but whitespace around it
IsPaddedRecording(s) ==
    \E i \in 1..(Len(s) + 1) :
        /\ i + Len(S_recording) - 1 <= Len(s)
        /\ SubSeq(s, i, i + Len(S_recording) - 1) = S_recording
        /\ \A k \in 1..Len(s) :
              (k < i \/ k >= i + Len(S_recording)) => s[k] \in Whitespace

\* C8 as stated: a toggle sends the stop signal iff the state text it read is
\* exactly `recording`, and the start signal otherwise.
C8_ToggleExactText ==
    \A p \in Procs :
        ToggleSignalled(p) =>
            \A i \in SignalsFrom(p) :
                signals[i].sig =
                    IF inv[p].stateSeen.exists
                       /\ inv[p].stateSeen.data = S_recording
                    THEN "SIGUSR2" ELSE "SIGUSR1"

\* C8 amended: a toggle that reaches the signalling step sends exactly one
\* signal: the stop signal iff the state text it read, with leading and
\* trailing whitespace removed, is `recording`; the start signal for any
\* other content, an empty file and a missing file included.
C8_ToggleTrimmedText ==
    \A p \in Procs :
        ToggleSignalled(p) =>
            /\ Cardinality(SignalsFrom(p)) = 1
            /\ \A i \in SignalsFrom(p) :
                  /\ signals[i].to \in LivePids
                  /\ signals[i].sig =
                        IF inv[p].stateSeen.exists
                           /\ IsPaddedRecording(inv[p].stateSeen.data)
                        THEN "SIGUSR2" ELSE "SIGUSR1"

\* a toggle that read `recording` followed by a newline and sent stop
C8_Witness ==
    /\ ToggleSignalled(1)
    /\ inv[1].stateSeen = File(S_recording \o <<"\n">>)
    /\ signals = <<[from |-> 1, to |-> 42, sig |-> "SIGUSR2"]>>

\* C9: an invocation whose --profile names an unconfigured profile exits 1
\* having sent no signal and written no mailbox file, whatever other override
\* options it was given.
C9_ProfileCheckedBeforeWrites ==
    \A p \in Procs :
        (/\ Finished(p)
         /\ inv[p].args.profile.some
         /\ ~HasProfile(inv[p].args.profile.val)) =>
            /\ inv[p].exit = 1
            /\ SignalsFrom(p) = {}
            /\ inv[p].wrote = {}

\* C35: a toggle that exits 1 because no state file is configured has sent
\* no signal and written no mailbox file, also when --output-mode, --model or
\* --profile were given.
C35_ToggleWithoutStateFileWritesNothing ==
    \A p \in Procs :
        (/\ Finished(p)
         /\ inv[p].args.action = "toggle"
         /\ inv[p].report = "state_file not configured") =>
            /\ inv[p].exit = 1
            /\ SignalsFrom(p) = {}
            /\ inv[p].wrote = {}

\* the complete texts the invocations put into the mailbox file of kind k
CompleteContents(k) ==
    {Content(inv[p].args, k) :
        p \in {q \in Procs : inv[q].pc # "off" /\ Requested(inv[q].args, k)}}

\* C10: whatever the daemon reads from a mailbox file is the complete text
\* of some invocation's write, never an empty or partly written file.
C10_ReaderSeesCompleteFile ==
    observed.kind # "none" => observed.data \in CompleteContents(observed.kind)

\* the invocation found the daemon alive
ProbedAlive(p) ==
    inv[p].pid \in LivePids /\ inv[p].pc \notin {"off", "check_pid", "read_pid", "probe"}

\* C11: a cancel against a live daemon sends no signal and touches no
\* mailbox file but the cancel trigger, which it has written, with the text
\* `cancel`, when it exits 0.
C11_CancelOnlyWritesTrigger ==
    \A p \in Procs :
        (inv[p].args.action = "cancel" /\ ProbedAlive(p)) =>
            /\ SignalsFrom(p) = {}
            /\ inv[p].wrote \subseteq {"cancel"}
            /\ \A k \in Kinds \ {"cancel"} : ~mailbox[k].exists
            /\ (Finished(p) /\ inv[p].exit = 0) =>
                  /\ inv[p].wrote = {"cancel"}
                  /\ mailbox["cancel"] \in {NoFile, File(S_cancel)}

\* a cancel that finished with the trigger file in place
C11_Witness ==
    /\ inv[1].args.action = "cancel"
    /\ ProbedAlive(1) /\ Finished(1) /\ inv[1].exit = 0
    /\ mailbox["cancel"] = File(S_cancel)

RequestedKinds(p) == {k \in Kinds : Requested(inv[p].args, k)}

\* C12: a start/stop/toggle invocation is at kill(), or past it, only with
\* every requested override file opened, written in full and closed (the file
\* holds the complete text unless the daemon already took it away); an
\* invocation whose mailbox write failed exits 1 and has sent no signal.
C12_SignalAfterWrites ==
    \A p \in Procs :
        /\ (inv[p].pc = "kill" \/ SignalsFrom(p) # {}) =>
              /\ inv[p].wrote = RequestedKinds(p)
              /\ inv[p].fd = "closed"
              /\ \A k \in RequestedKinds(p) :
                    mailbox[k] \in {NoFile, File(Content(inv[p].args, k))}
        /\ (Finished(p) /\ inv[p].report = "failed to write") =>
              inv[p].exit = 1 /\ SignalsFrom(p) = {}

\* a stop with all three overrides, each file complete when the signal went
C12_Witness ==
    /\ Finished(1) /\ inv[1].args.action = "stop"
    /\ Cardinality(SignalsFrom(1)) = 1
    /\ Cardinality(inv[1].wrote) = 3
    /\ \A k \in inv[1].wrote : mailbox[k] = File(Content(inv[1].args, k))

\* the invocations that wrote the mailbox file of kind k to the end
Writers(k) ==
    {p \in Procs : k \in inv[p].wrote /\ inv[p].pc # k}

\* C13: when two invocations have finished and the daemon has taken no file
\* away, every mailbox file they wrote holds exactly the complete text of one
\* of its writers (of its only writer, when the two wrote different kinds).
C13_LastWriterWins ==
    ((\A p \in Procs : Finished(p)) /\ observed.kind = "none") =>
        \A k \in Kinds :
            Writers(k) # {} =>
                \E p \in Writers(k) : mailbox[k] = File(Content(inv[p].args, k))

\* the text a toggle found in the state file when it read it
TextRead(p) ==
    IF inv[p].stateSeen.exists THEN inv[p].stateSeen.data ELSE S_idle

C28_OneSignalFromRead ==
    \A p \in Procs :
        inv[p].args.action = "toggle" =>
            /\ Cardinality(SignalsFrom(p)) <= 1
            /\ ToggleSignalled(p) => Cardinality(SignalsFrom(p)) = 1
            /\ \A i \in SignalsFrom(p) :
                  signals[i].sig = IF Trim(TextRead(p)) = S_recording
                                   THEN "SIGUSR2" ELSE "SIGUSR1"

C28_StateFileIsTheDaemons == stateFile' # stateFile => inv' = inv

\* C28: whatever the daemon and another invocation do meanwhile, a toggle
\* sends at most one signal, exactly one when it succeeds, picked from the
\* state text it read; no step of the dispatcher changes the state file,
\* which always holds a text the daemon wrote
C28_ToggleRace ==
    /\ [](C28_OneSignalFromRead /\ stateFile \in StateFiles)
    /\ [][C28_StateFileIsTheDaemons]_vars

\* a toggle read idle and is about to send start, the daemon is recording
\* by now, and the other invocation, a toggle too, has sent its signal
C28_Witness ==
    \E p, q \in Procs :
        /\ p # q
        /\ inv[p].args.action = "toggle"
        /\ inv[p].pc = "kill"
        /\ inv[p].stateSeen = File(S_idle)
        /\ inv[p].signal = "SIGUSR1"
        /\ stateFile = File(S_recording)
        /\ ToggleSignalled(q)


(***************************************************************************)
(* Status command: texts, files                                            *)
(***************************************************************************)
S_stopped == <<"s", "t", "o", "p", "p", "e", "d">>
\* stands for "no state text could be read"
S_missing == <<"<missing>">>

\* Option<f32>, the value counted in tenths
Level(v) == [some |-> TRUE, val |-> v]
NoLevel == [some |-> FALSE, val |-> 0]

\* s.trim().parse::<f32>() on the texts of the model: an optional minus
\* sign, one digit, a point, one digit
ParseLevel(s) ==
    LET t == Trim(s)
        neg == t # <<>> /\ Head(t) = "-"
        u == IF neg THEN Tail(t) ELSE t
    IN IF Len(u) = 3 /\ IsDigit(u[1]) /\ u[2] = "." /\ IsDigit(u[3])
       THEN Level((IF neg THEN -1 ELSE 1) * (10 * DigitValue(u[1]) + DigitValue(u[3])))
       ELSE NoLevel

\* bug variant: a value outside [0, 1] is clamped, an unreadable one is 0
ReadAudioLevelClamped ==
    IF ~levelFile.exists THEN NoLevel
    ELSE LET l == ParseLevel(levelFile.data)
         IN IF ~l.some THEN Level(0)
            ELSE IF l.val < 0 THEN Level(0)
            ELSE IF l.val > 10 THEN Level(10) ELSE l

\* read_audio_level: the level file's value when it parses and is in [0, 1]
ReadAudioLevel ==
    IF ~levelFile.exists THEN NoLevel
    ELSE LET l == ParseLevel(levelFile.data)
         IN IF l.some /\ l.val >= 0 /\ l.val <= 10 THEN l ELSE NoLevel

\* contents of the state file while the status command runs
StatusStateFiles ==
    {NoFile, File(S_idle), File(S_recording \o <<"\n">>), File(S_foo)}

\* contents of the level file
LevelFiles == {NoFile, File(<<"0", ".", "5">>), File(<<"0", ".", "7", "\n">>),
               File(<<"1", ".", "5">>), File(<<"x">>)}

\* the pid file names a process, and that process does not exist
StaleLock ==
    /\ pidFile.exists
    /\ ParsePid(pidFile.data).ok
    /\ ~(ParsePid(pidFile.data).val \in LivePids /\ daemonUp)

\* is_daemon_running: the pid file reads, parses, and /proc/<pid> exists
IsDaemonRunning ==
    /\ pidFile.exists
    /\ ParsePid(pidFile.data).ok
    /\ ParsePid(pidFile.data).val \in LivePids
    /\ daemonUp

\* what the state file holds, trimmed, or S_missing
FileState == IF stateFile.exists THEN Trim(stateFile.data) ELSE S_missing

\* bug variant: the state file is trusted without the liveness check
InitialStateTrusting ==
    Trim(IF stateFile.exists THEN stateFile.data ELSE S_stopped)

\* the state of the first record: one-shot, and the snapshot of follow mode
InitialState ==
    IF ~IsDaemonRunning THEN S_stopped
    ELSE Trim(IF stateFile.exists THEN stateFile.data ELSE S_stopped)

\* a printed record: the state and the level handed to the formatter (text
\* format prints the state alone), with what held when it was printed
Rec(state, level) ==
    [state |-> state,
     level |-> IF st.format = "json" THEN level ELSE NoLevel,
     running |-> IsDaemonRunning,
     fileThere |-> stateFile.exists,
     stale |-> StaleLock]

NoWake ==
    [kind |-> "none", running |-> FALSE, fstate |-> S_missing,
     level |-> NoLevel, prev_state |-> S_missing, prev_level |-> NoLevel,
     printed |-> 0, timeout |-> 0]

\* bug variant: the same wait whatever was last reported
TimeoutFixed(last_state) == 500

\* the wait of recv_timeout, in milliseconds
Timeout(last_state) == IF last_state = S_recording THEN 50 ELSE 500

Wake(kind, n) ==
    [kind |-> kind, running |-> IsDaemonRunning, fstate |-> FileState,
     level |-> ReadAudioLevel, prev_state |-> st.last_state,
     prev_level |-> st.last_level, printed |-> n,
     timeout |-> Timeout(st.last_state)]

(***************************************************************************)
(* run_status                                                              *)
(***************************************************************************)
\* state_file.is_none(): print the remedy and exit(1)
StatusNotConfigured ==
    /\ st.pc = "start"
    /\ ~config.state_file
    /\ st' = [st EXCEPT !.pc = "exit", !.exit = 1]
    /\ UNCHANGED <<daemonUp, levelFile, watchEvents, out, lastWake>>
    /\ UNCHANGED recVars

\* print the first record; one-shot returns, follow mode goes on
PrintSnapshot ==
    /\ st.pc = "start"
    /\ config.state_file
    /\ out' = Append(out, Rec(InitialState, NoLevel))
    /\ st' = IF st.follow
             THEN [st EXCEPT !.pc = "setup", !.state = InitialState]
             ELSE [st EXCEPT !.pc = "exit", !.exit = 0, !.state = InitialState]
    /\ UNCHANGED <<daemonUp, levelFile, watchEvents, lastWake>>
    /\ UNCHANGED recVars

\* the watcher is created and set on the state file's directory; then
\* last_state = state, last_level = None
WatchSetup ==
    /\ st.pc = "setup"
    /\ st' = [st EXCEPT !.pc = "loop", !.last_state = st.state,
                        !.last_level = NoLevel]
    /\ watchEvents' = 0
    /\ UNCHANGED <<daemonUp, levelFile, out, lastWake>>
    /\ UNCHANGED recVars

\* bug variant: every event prints a record
ChangedAlways(new_state, level) == TRUE

\* new_state != last_state || level != last_level
Changed(new_state, level) ==
    new_state # st.last_state \/ level # st.last_level

\* recv_timeout returns Ok(Ok(event)): read the state and the level, print
\* when either differs from what was last reported
WakeEvent ==
    /\ st.pc = "loop"
    /\ watchEvents > 0
    /\ Len(out) < MaxOutput
    /\ watchEvents' = watchEvents - 1
    /\ LET new_state == Trim(stateFile.data)
           level == ReadAudioLevel
           print == stateFile.exists /\ Changed(new_state, level)
       IN /\ out' = IF print THEN Append(out, Rec(new_state, level)) ELSE out
          /\ st' = IF print
                   THEN [st EXCEPT !.last_state = new_state, !.last_level = level]
                   ELSE st
          /\ lastWake' = Wake("event", IF print THEN 1 ELSE 0)
    /\ UNCHANGED <<daemonUp, levelFile>>
    /\ UNCHANGED recVars

\* bug variant: the test of the state file is the wrong way round
DaemonStoppedInverted(fileExists, running) == fileExists \/ ~running

\* !state_path.exists() || !is_daemon_running()
DaemonStopped(fileExists, running) == ~fileExists \/ ~running

\* recv_timeout returns Err(Timeout): while recording (json) print a changed
\* level; then print stopped when the daemon is found stopped and stopped
\* was not the last state reported
WakeTimeout ==
    /\ st.pc = "loop"
    /\ watchEvents = 0
    /\ Len(out) < MaxOutput
    /\ LET level == ReadAudioLevel
           printLevel == /\ st.last_state = S_recording
                         /\ st.format = "json"
                         /\ level # st.last_level
           printStop == /\ DaemonStopped(stateFile.exists, IsDaemonRunning)
                        /\ st.last_state # S_stopped
           out1 == IF printLevel
                   THEN Append(out, Rec(st.last_state, level)) ELSE out
       IN /\ out' = IF printStop
                    THEN Append(out1, Rec(S_stopped, NoLevel)) ELSE out1
          /\ st' = IF printStop
                   THEN [st EXCEPT !.last_state = S_stopped,
                                   !.last_level = NoLevel]
                   ELSE IF printLevel
                   THEN [st EXCEPT !.last_level = level]
                   ELSE st
          /\ lastWake' = Wake("timeout", (IF printLevel THEN 1 ELSE 0)
                                         + (IF printStop THEN 1 ELSE 0))
    /\ UNCHANGED <<daemonUp, levelFile, watchEvents>>
    /\ UNCHANGED recVars

(***************************************************************************)
(* The daemon and the watched directory, as the status command sees them   *)
(***************************************************************************)
Following == st.pc \in {"setup", "loop"}

\* a change in the watched directory puts an event in the channel once the
\* watcher is set up
Notified ==
    IF st.pc = "loop"
    THEN watchEvents < MaxPending /\ watchEvents' = watchEvents + 1
    ELSE UNCHANGED watchEvents

\* the running daemon rewrites (or removes) its state file
StateFileChange(f) ==
    /\ Following /\ daemonUp
    /\ f \in StatusStateFiles /\ f # stateFile
    /\ stateFile' = f
    /\ Notified
    /\ UNCHANGED <<daemonUp, levelFile, st, out, lastWake>>
    /\ UNCHANGED <<config, pidFile, mailbox, signals, observed, inv>>

\* the running daemon rewrites (or removes) the level file
LevelFileChange(f) ==
    /\ Following /\ daemonUp
    /\ f \in LevelFiles /\ f # levelFile
    /\ levelFile' = f
    /\ Notified
    /\ UNCHANGED <<daemonUp, st, out, lastWake>>
    /\ UNCHANGED recVars

\* some other entry of the watched directory changes
DirEvent ==
    /\ st.pc = "loop"
    /\ watchEvents < MaxPending
    /\ watchEvents' = watchEvents + 1
    /\ UNCHANGED <<daemonUp, levelFile, st, out, lastWake>>
    /\ UNCHANGED recVars

\* the daemon is killed; its files stay behind
DaemonCrash ==
    /\ Following /\ daemonUp
    /\ daemonUp' = FALSE
    /\ UNCHANGED <<levelFile, watchEvents, st, out, lastWake>>
    /\ UNCHANGED recVars

StatusFresh(follow, format) ==
    [pc |-> "start", follow |-> follow, format |-> format, state |-> S_missing,
     last_state |-> S_missing, last_level |-> NoLevel, exit |-> -1]

InitStatus ==
    /\ config \in [state_file : BOOLEAN, profiles : {{S_dev}}]
    /\ pidFile \in PidFiles
    /\ stateFile \in StatusStateFiles
    /\ mailbox = [k \in Kinds |-> NoFile]
    /\ signals = <<>>
    /\ observed = [kind |-> "none", data |-> <<>>]
    /\ inv = [p \in Procs |-> Off]
    /\ daemonUp \in BOOLEAN
    \* a running daemon holds the lock that names it
    /\ daemonUp => pidFile = File(<<"4", "2", "\n">>)
    /\ levelFile \in LevelFiles
    /\ watchEvents = 0
    /\ \E follow \in BOOLEAN, format \in {"json", "text"} :
          st = StatusFresh(follow, format)
    /\ out = <<>>
    /\ lastWake = NoWake

StatusIdle ==
    /\ daemonUp = TRUE
    /\ levelFile = NoFile
    /\ watchEvents = 0
    /\ st = [StatusFresh(FALSE, "text") EXCEPT !.pc = "off"]
    /\ out = <<>>
    /\ lastWake = NoWake

NextStatus ==
    \/ StatusNotConfigured
    \/ PrintSnapshot
    \/ WatchSetup
    \/ WakeEvent
    \/ WakeTimeout
    \/ \E f \in StatusStateFiles : StateFileChange(f)
    \/ \E f \in LevelFiles : LevelFileChange(f)
    \/ DirEvent
    \/ DaemonCrash

(***************************************************************************)
(* Properties of the status command                                        *)
(***************************************************************************)
Printed == 1..Len(out)

\* the records printed by the latest wake
WakeRecords == (Len(out) - lastWake.printed + 1)..Len(out)

\* C14: the first record printed by status, one-shot or the snapshot of
\* follow mode, is stopped whenever the liveness check fails, whatever the
\* state file holds
C14_FirstRecordStopped ==
    (out # <<>> /\ ~out[1].running) => out[1].state = S_stopped

C14_Witness ==
    /\ out # <<>>
    /\ ~out[1].running
    /\ out[1].fileThere
    /\ out[1].state = S_stopped
    /\ st.pc = "exit"
    /\ stateFile = File(S_recording \o <<"\n">>)

\* C15: in follow mode a record whose state comes from the state file is
\* printed only on a wake where the liveness check succeeded
C15_FileStateOnlyWhenAlive ==
    \A i \in Printed :
        (i > 1 /\ out[i].state # S_stopped) => out[i].running

\* C16: once the daemon is down, one stopped record is printed and no
\* record of any state after it (the daemon of this model does not come
\* back)
C16_OneStopWhileDown ==
    \A i \in Printed :
        ~out[i].running => (out[i].state = S_stopped /\ i = Len(out))

\* C17: while the daemon is alive a wake prints only when the state or the
\* level it read differs from the pair last reported
C17_PrintOnlyOnChange ==
    (lastWake.kind # "none" /\ lastWake.running /\ lastWake.printed > 0) =>
        \/ lastWake.fstate # lastWake.prev_state
        \/ lastWake.level # lastWake.prev_level

C17_Witness ==
    /\ lastWake.kind = "event"
    /\ lastWake.running
    /\ lastWake.printed = 1
    /\ lastWake.fstate = lastWake.prev_state
    /\ lastWake.level # lastWake.prev_level
    /\ out[Len(out)].state = S_recording

\* C18: with the daemon alive, a wake of either kind that finds a state in
\* the state file other than the one last reported prints that state
C18_ChangeSeenOnAnyWake ==
    (/\ lastWake.kind # "none"
     /\ lastWake.running
     /\ lastWake.fstate # S_missing
     /\ lastWake.fstate # lastWake.prev_state) =>
        \E i \in WakeRecords : out[i].state = lastWake.fstate

\* C19 as stated: stopped is printed only when the liveness check fails
C19_StoppedOnlyWhenDead ==
    \A i \in Printed : out[i].state = S_stopped => ~out[i].running

\* C19: stopped is printed only when the liveness check fails or the state
\* file cannot be read; the daemon itself never writes it
C19_StoppedDeadOrNoFile ==
    \A i \in Printed :
        out[i].state = S_stopped => (~out[i].running \/ ~out[i].fileThere)

C19_Witness ==
    \E i \in Printed :
        /\ out[i].state = S_stopped
        /\ out[i].running
        /\ ~out[i].fileThere
        /\ i > 1

\* C20: when the status command reports stopped with a lock that names a
\* process which does not exist, the lock is gone
C20_StatusRemovesStaleLock ==
    \A i \in Printed :
        (out[i].state = S_stopped /\ out[i].stale) => ~pidFile.exists

\* the text of a level counted in tenths, as the level file spells it
TenthsText(v) == <<Digits[(v \div 10) + 1], ".", Digits[(v % 10) + 1]>>

\* C31: the level a wake-up of follow mode reads is present only when the
\* level file holds a number in [0, 1], and is then that very number; a file
\* that does not parse, or holds a number outside [0, 1], gives no level
\* (never a clamped one, never 0).
C31_LevelAbsentUnlessInRange ==
    [][lastWake' # lastWake =>
        LET l == lastWake'.level
            inRange == {TenthsText(v) : v \in 0..10}
        IN /\ l.some =>
                 /\ levelFile.exists
                 /\ l.val \in 0..10
                 /\ Trim(levelFile.data) = TenthsText(l.val)
           /\ ~l.some =>
                 \/ ~levelFile.exists
                 \/ Trim(levelFile.data) \notin inRange]_vars

\* follow mode printed the level 0.7 it read, then woke up over a level file
\* holding 1.5 or x and read no level
C31_Witness ==
    /\ lastWake.kind # "none"
    /\ ~lastWake.level.some
    /\ levelFile \in {File(<<"1", ".", "5">>), File(<<"x">>)}
    /\ \E i \in Printed : out[i].level = Level(7)

\* C30: the wait of every iteration of the follow loop is 50 ms when the
\* record last printed has the state recording and 500 ms when it has any
\* other state, stopped and unknown states included
C30_AdaptiveTimeout ==
    lastWake.kind # "none" =>
        lastWake.timeout =
            IF out[Len(out) - lastWake.printed].state = S_recording
            THEN 50 ELSE 500

\* recording was reported, then stopped, and the loop has since waited
\* 500 ms and printed nothing
C30_Witness ==
    /\ lastWake.kind = "timeout"
    /\ lastWake.timeout = 500
    /\ lastWake.printed = 0
    /\ Len(out) >= 2
    /\ out[Len(out)].state = S_stopped
    /\ out[Len(out) - 1].state = S_recording

(***************************************************************************)
(* JSON records of the status command: WaybarStatus and its formatter      *)
(***************************************************************************)
S_transcribing ==
    <<"t", "r", "a", "n", "s", "c", "r", "i", "b", "i", "n", "g">>
\* a state name the formatter does not know
S_outputting == <<"o", "u", "t", "p", "u", "t", "t", "i", "n", "g">>
\* a state name with a quote and a backslash in it
S_quoted == <<"a", "\"", "b", "\\">>

\* the base tooltips of the match on the state
BaseTooltip ==
    [recording |->
        <<"R", "e", "c", "o", "r", "d", "i", "n", "g", ".", ".", ".">>,
     transcribing |->
        <<"T", "r", "a", "n", "s", "c", "r", "i", "b", "i", "n", "g", ".",
          ".", ".">>,
     idle |->
        <<"V", "o", "x", "t", "y", "p", "e", " ", "r", "e", "a", "d", "y",
          " ", "-", " ", "h", "o", "l", "d", " ", "h", "o", "t", "k", "e",
          "y", " ", "t", "o", " ", "r", "e", "c", "o", "r", "d">>,
     stopped |->
        <<"V", "o", "x", "t", "y", "p", "e", " ", "n", "o", "t", " ", "r",
          "u", "n", "n", "i", "n", "g">>,
     unknown |->
        <<"U", "n", "k", "n", "o", "w", "n", " ", "s", "t", "a", "t", "e">>]

\* the labels format! puts before the extended info
TooltipLabel ==
    [model |-> <<"\n", "M", "o", "d", "e", "l", ":", " ">>,
     device |->
        <<"\n", "D", "e", "v", "i", "c", "e", ":", " ">>,
     backend |->
        <<"\n", "B", "a", "c", "k", "e", "n", "d", ":", " ">>]

\* bug variant: level is declared after the extended fields
FieldOrderLevelLast ==
    <<"text", "alt", "class", "tooltip", "model", "device", "backend", "level">>

\* the fields of WaybarStatus in declaration order, which is the order
\* serde writes them in
FieldOrder ==
    <<"text", "alt", "class", "tooltip", "level", "model", "device", "backend">>

BaseFields == {"text", "alt", "class", "tooltip"}

\* the field names as they are written
FieldName ==
    [text |-> <<"t", "e", "x", "t">>,
     alt |-> <<"a", "l", "t">>,
     class |-> <<"c", "l", "a", "s", "s">>,
     tooltip |-> <<"t", "o", "o", "l", "t", "i", "p">>,
     level |-> <<"l", "e", "v", "e", "l">>,
     model |-> <<"m", "o", "d", "e", "l">>,
     device |-> <<"d", "e", "v", "i", "c", "e">>,
     backend |-> <<"b", "a", "c", "k", "e", "n", "d">>]

\* ResolvedIcons: the test icons, and a theme whose texts need escaping
IconSets ==
    {[idle |-> <<"I">>, recording |-> <<"R">>, transcribing |-> <<"T">>,
      stopped |-> <<>>],
     [idle |-> <<"p", "r", "ê", "t">>, recording |-> <<"\"">>,
      transcribing |-> <<"\\", "n">>, stopped |-> <<"\t", "x">>]}

ExtendedStatusInfo(model, device, backend) ==
    [model |-> model, device |-> device, backend |-> backend]

\* Option<&ExtendedStatusInfo>: none, a plain one, one that needs escaping
ExtendedInfos ==
    {None,
     Some(ExtendedStatusInfo(S_base, <<"h", "w", ":", "0">>, <<"C", "P", "U">>)),
     Some(ExtendedStatusInfo(<<"m", " ", "\"", "q", "\"", " ", "\\">>,
                             <<"d", "/", "é">>, <<"<", "\n", ">">>))}

FormatStates ==
    {S_idle, S_recording, S_transcribing, S_stopped, S_outputting, S_quoted}

\* Option<f32> handed to the formatter, in tenths
FormatLevels == {NoLevel, Level(0), Level(5), Level(10)}

\* bug variant: no character is escaped
EscapeCharRaw(c) == <<c>>

\* serde_json's string escapes, for the characters of the model
EscapeChar(c) ==
    CASE c = "\"" -> <<"\\", "\"">>
      [] c = "\\" -> <<"\\", "\\">>
      [] c = "\n" -> <<"\\", "n">>
      [] c = "\t" -> <<"\\", "t">>
      [] c = "\r" -> <<"\\", "r">>
      [] OTHER -> <<c>>

\* every character of s escaped; the text is cut in halves
RECURSIVE EscapeText(_)
EscapeText(s) ==
    IF s = <<>> THEN <<>>
    ELSE IF Len(s) = 1 THEN EscapeChar(s[1])
    ELSE LET h == Len(s) \div 2
         IN EscapeText(SubSeq(s, 1, h)) \o EscapeText(SubSeq(s, h + 1, Len(s)))

JsonString(s) == <<"\"">> \o EscapeText(s) \o <<"\"">>

\* an f32 in [0, 1] with one decimal, as serde_json writes it
F32Text(v) == <<Digits[(v \div 10) + 1], ".", Digits[(v % 10) + 1]>>

\* skip_serializing_if = "Option::is_none"
Skipped(status, f) == f \notin BaseFields /\ ~status[f].some

SerializeValue(status, f) ==
    IF f = "level" THEN F32Text(status.level.val)
    ELSE IF f \in BaseFields THEN JsonString(status[f])
    ELSE JsonString(status[f].val)

RECURSIVE SerializeFields(_, _, _)
SerializeFields(status, i, first) ==
    IF i > Len(FieldOrder) THEN <<>>
    ELSE IF Skipped(status, FieldOrder[i])
    THEN SerializeFields(status, i + 1, first)
    ELSE (IF first THEN <<>> ELSE <<",">>)
         \o JsonString(FieldName[FieldOrder[i]]) \o <<":">>
         \o SerializeValue(status, FieldOrder[i])
         \o SerializeFields(status, i + 1, FALSE)

\* serde_json::to_string(&status); it returns Ok for every WaybarStatus
to_string(status) == <<"{">> \o SerializeFields(status, 1, TRUE) \o <<"}">>

\* the match on the state: icon text and base tooltip
IconAndTooltip(state, icons) ==
    CASE state = S_recording -> [text |-> icons.recording, tooltip |-> BaseTooltip.recording]
      [] state = S_transcribing ->
            [text |-> icons.transcribing, tooltip |-> BaseTooltip.transcribing]
      [] state = S_idle -> [text |-> icons.idle, tooltip |-> BaseTooltip.idle]
      [] state = S_stopped -> [text |-> icons.stopped, tooltip |-> BaseTooltip.stopped]
      [] OTHER -> [text |-> icons.idle, tooltip |-> BaseTooltip.unknown]

\* bug variant: a missing level is written as 0
EffectiveLevelDefaulted(state, level) ==
    IF state = S_recording /\ level.some THEN level ELSE Level(0)

\* let effective_level = if state == "recording" { level } else { None }
EffectiveLevel(state, level) ==
    IF state = S_recording THEN level ELSE NoLevel

\* bug variant: the backend is left out while a level is reported
BuildStatusPartial(state, icons, extended, level) ==
    LET d == IconAndTooltip(state, icons)
        lv == EffectiveLevel(state, level)
    IN IF extended.some
       THEN [text |-> d.text, alt |-> state, class |-> state,
             tooltip |-> d.tooltip \o TooltipLabel.model \o extended.val.model
                         \o TooltipLabel.device \o extended.val.device
                         \o TooltipLabel.backend \o extended.val.backend,
             level |-> lv,
             model |-> Some(extended.val.model),
             device |-> Some(extended.val.device),
             backend |-> IF lv.some THEN None ELSE Some(extended.val.backend)]
       ELSE [text |-> d.text, alt |-> state, class |-> state,
             tooltip |-> d.tooltip, level |-> lv,
             model |-> None, device |-> None, backend |-> None]

\* the WaybarStatus built from the arguments
BuildStatus(state, icons, extended, level) ==
    LET d == IconAndTooltip(state, icons)
    IN IF extended.some
       THEN [text |-> d.text, alt |-> state, class |-> state,
             tooltip |-> d.tooltip \o TooltipLabel.model \o extended.val.model
                         \o TooltipLabel.device \o extended.val.device
                         \o TooltipLabel.backend \o extended.val.backend,
             level |-> EffectiveLevel(state, level),
             model |-> Some(extended.val.model),
             device |-> Some(extended.val.device),
             backend |-> Some(extended.val.backend)]
       ELSE [text |-> d.text, alt |-> state, class |-> state,
             tooltip |-> d.tooltip, level |-> EffectiveLevel(state, level),
             model |-> None, device |-> None, backend |-> None]

format_state_json_with_level(state, icons, extended, level) ==
    to_string(BuildStatus(state, icons, extended, level))

format_state_json(state, icons, extended) ==
    format_state_json_with_level(state, icons, extended, NoLevel)


\* the closure of unwrap_or_else: the state is put into the literal as it is
FallbackJson(state) ==
    LET head ==
            <<"{", "\"", "t", "e", "x", "t", "\"", ":", "\"", "\"", ",",
              "\"", "a", "l", "t", "\"", ":", "\"">>
        class ==
            <<"\"", ",", "\"", "c", "l", "a", "s", "s", "\"", ":", "\"">>
        tail ==
            <<"\"", ",", "\"", "t", "o", "o", "l", "t", "i", "p", "\"", ":",
              "\"", "S", "e", "r", "i", "a", "l", "i", "z", "a", "t", "i",
              "o", "n", " ", "e", "r", "r", "o", "r", "\"", "}">>
    IN head \o state \o class \o state \o tail

(***************************************************************************)
(* Reading a record back, as serde_json::from_str does in the tests:       *)
(* one object whose values are strings or numbers                          *)
(***************************************************************************)
BadJson == [ok |-> FALSE, keys |-> <<>>, vals |-> <<>>]
BadToken == [ok |-> FALSE, val |-> <<>>, next |-> 0]
StrValue(s) == [num |-> FALSE, str |-> s, n |-> 0]
NumValue(v) == [num |-> TRUE, str |-> <<>>, n |-> v]

ControlChars == {"\n", "\t", "\r"}

\* the character an escape stands for; <<>> when the escape is not JSON
Unescape(e) ==
    CASE e = "\"" -> <<"\"">>
      [] e = "\\" -> <<"\\">>
      [] e = "/" -> <<"/">>
      [] e = "n" -> <<"\n">>
      [] e = "t" -> <<"\t">>
      [] e = "r" -> <<"\r">>
      [] OTHER -> <<>>

\* the backslashes that stand in a row right before position j, from lo on
BackslashRun(t, lo, j) ==
    LET others == {k \in lo..(j - 1) : t[k] # "\\"}
    IN IF others = {} THEN j - lo
       ELSE j - 1 - (CHOOSE k \in others : \A m \in others : m <= k)

\* the character at position j is the second half of an escape
Escaped(t, lo, j) ==
    j > lo /\ t[j - 1] = "\\" /\ BackslashRun(t, lo, j) % 2 = 1

\* the string whose first character is at position i: it ends at the first
\* quote that is not escaped
ScanString(t, i) ==
    LET closers == {j \in i..Len(t) : t[j] = "\"" /\ ~Escaped(t, i, j)}
    IN IF closers = {} THEN BadToken
       ELSE LET j == CHOOSE c \in closers : \A m \in closers : c <= m
                valid == \A k \in i..(j - 1) :
                            /\ t[k] \notin ControlChars
                            /\ Escaped(t, i, k) => Unescape(t[k]) # <<>>
                marks == [n \in 1..(j - i) |->
                            LET k == i + n - 1
                            IN IF Escaped(t, i, k)
                               THEN [keep |-> TRUE, c |-> Unescape(t[k])[1]]
                               ELSE IF t[k] = "\\"
                               THEN [keep |-> FALSE, c |-> ""]
                               ELSE [keep |-> TRUE, c |-> t[k]]]
                kept == SelectSeq(marks, LAMBDA m : m.keep)
            IN IF valid
               THEN [ok |-> TRUE, val |-> [n \in 1..Len(kept) |-> kept[n].c],
                     next |-> j + 1]
               ELSE BadToken

ParseString(t, i) ==
    IF i <= Len(t) /\ t[i] = "\"" THEN ScanString(t, i + 1) ELSE BadToken

\* digit, point, digit: the value in tenths
ParseNumber(t, i) ==
    IF i + 2 <= Len(t) /\ IsDigit(t[i]) /\ t[i + 1] = "." /\ IsDigit(t[i + 2])
    THEN [ok |-> TRUE, val |-> 10 * DigitValue(t[i]) + DigitValue(t[i + 2]),
          next |-> i + 3]
    ELSE BadToken

\* the members from position i to the closing brace, which ends the text
RECURSIVE ParseMembers(_, _, _, _)
ParseMembers(t, i, keys, vals) ==
    LET k == ParseString(t, i)
    IN IF ~k.ok \/ k.next > Len(t) \/ t[k.next] # ":" THEN BadJson
       ELSE LET s == ParseString(t, k.next + 1)
                n == ParseNumber(t, k.next + 1)
                v == IF s.ok THEN StrValue(s.val) ELSE NumValue(n.val)
                next == IF s.ok THEN s.next ELSE n.next
            IN IF ~s.ok /\ ~n.ok THEN BadJson
               ELSE IF next > Len(t) THEN BadJson
               ELSE IF t[next] = "}"
               THEN IF next = Len(t)
                    THEN [ok |-> TRUE, keys |-> Append(keys, k.val),
                          vals |-> Append(vals, v)]
                    ELSE BadJson
               ELSE IF t[next] = ","
               THEN ParseMembers(t, next + 1, Append(keys, k.val), Append(vals, v))
               ELSE BadJson

ParseJson(t) ==
    IF Len(t) < 2 \/ t[1] # "{" THEN BadJson
    ELSE IF t[2] = "}"
    THEN IF Len(t) = 2 THEN [ok |-> TRUE, keys |-> <<>>, vals |-> <<>>] ELSE BadJson
    ELSE ParseMembers(t, 2, <<>>, <<>>)

(***************************************************************************)
(* The formatter called on its own                                         *)
(***************************************************************************)
InitFormat ==
    /\ fmtPc = "call"
    /\ fmtIn \in [state : FormatStates, icons : IconSets,
                  extended : ExtendedInfos, level : FormatLevels]
    /\ fmtOut = <<>>

\* format_state_json_with_level returns what serde_json::to_string wrote
FormatCall ==
    /\ fmtPc = "call"
    /\ fmtPc' = "serde"
    /\ fmtOut' = format_state_json_with_level(fmtIn.state, fmtIn.icons,
                                              fmtIn.extended, fmtIn.level)
    /\ UNCHANGED fmtIn

\* the closure of unwrap_or_else, which runs when to_string returns Err
FallbackCall ==
    /\ fmtPc = "call"
    /\ fmtPc' = "fallback"
    /\ fmtOut' = FallbackJson(fmtIn.state)
    /\ UNCHANGED fmtIn

FormatIdle ==
    /\ fmtPc = "off"
    /\ fmtIn = [state |-> S_idle, icons |-> CHOOSE i \in IconSets : i.stopped = <<>>,
                extended |-> None, level |-> NoLevel]
    /\ fmtOut = <<>>

NextFormat == FormatCall \/ FallbackCall

(***************************************************************************)
(* Properties of the formatter                                             *)
(***************************************************************************)
HasField(p, f) == \E i \in 1..Len(p.keys) : p.keys[i] = FieldName[f]

FieldValue(p, f) ==
    p.vals[CHOOSE i \in 1..Len(p.keys) : p.keys[i] = FieldName[f]]

Formatted == fmtPc = "serde"

\* C21: for every state name, known or not, a record formatted without
\* level and without extended info has exactly the four fields text, alt,
\* class and tooltip, and class and alt are the state name verbatim
C21_BaseRecord ==
    (Formatted /\ ~fmtIn.level.some /\ ~fmtIn.extended.some) =>
        LET p == ParseJson(fmtOut)
        IN /\ p.ok
           /\ Len(p.keys) = 4
           /\ \A f \in BaseFields : HasField(p, f) /\ ~FieldValue(p, f).num
           /\ FieldValue(p, "class").str = fmtIn.state
           /\ FieldValue(p, "alt").str = fmtIn.state

C21_Witness ==
    /\ Formatted /\ ~fmtIn.level.some /\ ~fmtIn.extended.some
    /\ fmtIn.state = S_quoted
    /\ LET p == ParseJson(fmtOut)
       IN /\ p.ok
          /\ FieldValue(p, "class").str = S_quoted
          /\ FieldValue(p, "tooltip").str = BaseTooltip.unknown

\* C22: level is in the record exactly when the state is recording and a
\* level was supplied, and then it is the level supplied
C22_LevelOnlyWhenRecording ==
    Formatted =>
        LET p == ParseJson(fmtOut)
        IN /\ p.ok
           /\ HasField(p, "level") <=>
                 (fmtIn.state = S_recording /\ fmtIn.level.some)
           /\ HasField(p, "level") =>
                 /\ FieldValue(p, "level").num
                 /\ FieldValue(p, "level").n = fmtIn.level.val

C22_Witness ==
    /\ Formatted
    /\ \/ fmtIn.state = S_idle /\ fmtIn.level = Level(5)
       \/ fmtIn.state = S_recording /\ fmtIn.level = NoLevel
    /\ fmtIn.extended.some
    /\ LET p == ParseJson(fmtOut)
       IN p.ok /\ ~HasField(p, "level")

\* C23: model, device and backend are in the record all three or not at
\* all, and they are in it exactly when extended info was supplied, for
\* every state and with or without a level
C23_ExtendedAsGroup ==
    Formatted =>
        LET p == ParseJson(fmtOut)
        IN /\ p.ok
           /\ \A f \in {"model", "device", "backend"} :
                 /\ HasField(p, f) <=> fmtIn.extended.some
                 /\ HasField(p, f) => FieldValue(p, f).str = fmtIn.extended.val[f]

C23_Witness ==
    /\ Formatted
    /\ fmtIn.state = S_recording /\ fmtIn.level = Level(5)
    /\ fmtIn.extended.some
    /\ LET p == ParseJson(fmtOut)
       IN /\ p.ok
          /\ HasField(p, "level") /\ HasField(p, "model")
          /\ HasField(p, "device") /\ HasField(p, "backend")

\* C24: the fields are written in the order text, alt, class, tooltip,
\* level, model, device, backend, with the absent ones left out
C24_FieldOrder ==
    Formatted =>
        LET p == ParseJson(fmtOut)
            order == <<"text", "alt", "class", "tooltip",
                       "level", "model", "device", "backend">>
            present == SelectSeq(order, LAMBDA f : HasField(p, f))
        IN /\ p.ok
           /\ Len(p.keys) = Len(present)
           /\ \A i \in 1..Len(present) : p.keys[i] = FieldName[present[i]]
           /\ Len(present) >= 4 /\ SubSeq(present, 1, 4) = SubSeq(order, 1, 4)

C24_Witness ==
    /\ Formatted
    /\ LET p == ParseJson(fmtOut)
       IN /\ p.ok
          /\ Len(p.keys) = 8
          /\ p.keys[5] = FieldName["level"]
          /\ p.keys[8] = FieldName["backend"]

BridgeCapacity == 32

\* r#"{"class":"stopped"}"#, character by character
StoppedText ==
    <<"{", "\"", "c", "l", "a", "s", "s", "\"", ":", "\"">> \o S_stopped
        \o <<"\"", "}">>

\* lines the bus hands to the tray: records of the status command (one with
\* a state name the tray does not know), the bus's stopped record, an object
\* without class, one whose class is a number, and a record cut short
TrayLines ==
    LET icons == CHOOSE i \in IconSets : i.idle = <<"I">>
    IN {format_state_json(S_idle, icons, None),
        format_state_json_with_level(S_recording, icons, None, Level(5)),
        format_state_json(S_outputting, icons, None),
        StoppedText,
        <<"{", "\"", "t", "e", "x", "t", "\"", ":", "\"", "x", "\"", "}">>,
        <<"{", "\"", "c", "l", "a", "s", "s", "\"", ":", "0", ".", "5", "}">>,
        <<"{", "\"", "c", "l", "a", "s", "s", "\"", ":">>}

\* serde_json::from_str(&line) then json.get("class").and_then(|v| v.as_str())
ClassOfParsed(json) ==
    IF json.ok /\ HasField(json, "class") /\ ~FieldValue(json, "class").num
    THEN Some(FieldValue(json, "class").str)
    ELSE None

ClassOf(line) == ClassOfParsed(ParseJson(line))

\* the class as the &str that from_class matches on
ClassName(cs) ==
    CASE cs = S_recording -> "recording"
      [] cs = S_transcribing -> "transcribing"
      [] cs = S_idle -> "idle"
      [] cs = S_stopped -> "stopped"
      [] OTHER -> "other"

\* VoxtypeTray { state: TrayState::Idle, .. } with both channels open
InitTray ==
    tray = [pc |-> "run", state |-> "Idle",
            txOpen |-> TRUE, rx |-> <<>>,
            bridgeOpen |-> TRUE, bridge |-> <<>>,
            sent |-> <<>>, seen |-> <<>>]

\* the bus sends a line to the tray's sender: tx.send(line.clone())
TraySend(l) ==
    /\ tray.txOpen
    /\ Len(tray.sent) < MaxTrayLines
    /\ tray' = [tray EXCEPT !.rx = Append(@, l), !.sent = Append(@, l)]

\* the bus thread is gone and its senders with it
TrayBusEnds ==
    /\ tray.txOpen
    /\ tray' = [tray EXCEPT !.txOpen = FALSE]

\* spawn_blocking: for line in status_rx.iter() { tx.blocking_send(line) }
BridgeForward ==
    /\ tray.bridgeOpen
    /\ tray.rx # <<>>
    /\ Len(tray.bridge) < BridgeCapacity
    /\ tray' = [tray EXCEPT !.rx = Tail(@),
                            !.bridge = Append(@, Head(tray.rx))]

\* status_rx.iter() ends: the blocking task returns and drops tx
BridgeEnds ==
    /\ tray.bridgeOpen
    /\ tray.rx = <<>> /\ ~tray.txOpen
    /\ tray' = [tray EXCEPT !.bridgeOpen = FALSE]

\* bug variant: a line without a class counts as one with the class ""
TrayRecvDefaulting ==
    /\ tray.pc = "run"
    /\ tray.bridge # <<>>
    /\ LET line == Head(tray.bridge)
           class == ClassOf(line)
           new_state == from_class(ClassName(class.val))
       IN tray' = [tray EXCEPT !.bridge = Tail(@),
                               !.seen = Append(@, line),
                               !.state = new_state]

\* rx.recv().await gives Some(line): a line with a string class sets the
\* state mapped from it
TrayRecv ==
    /\ tray.pc = "run"
    /\ tray.bridge # <<>>
    /\ LET line == Head(tray.bridge)
           class == ClassOf(line)
           new_state == from_class(ClassName(class.val))
       IN tray' = [tray EXCEPT !.bridge = Tail(@),
                               !.seen = Append(@, line),
                               !.state = IF class.some /\ @ # new_state
                                         THEN new_state ELSE @]

\* rx.recv().await gives None: the bus ended, the tray shows stopped
TrayBusEnded ==
    /\ tray.pc = "run"
    /\ tray.bridge = <<>> /\ ~tray.bridgeOpen
    /\ tray' = [tray EXCEPT !.pc = "ended", !.state = "Stopped"]

TrayIdle ==
    tray = [pc |-> "off", state |-> "Idle",
            txOpen |-> FALSE, rx |-> <<>>,
            bridgeOpen |-> FALSE, bridge |-> <<>>,
            sent |-> <<>>, seen |-> <<>>]

NextTray ==
    \/ \E l \in TrayLines : TraySend(l)
    \/ TrayBusEnds
    \/ BridgeForward
    \/ BridgeEnds
    \/ TrayRecv
    \/ TrayBusEnded

(***************************************************************************)
(* Properties of the tray                                                  *)
(***************************************************************************)
\* the class of the last of the lines that has a string class
RECURSIVE LastClass(_)
LastClass(lines) ==
    IF lines = <<>> THEN None
    ELSE IF ClassOf(lines[Len(lines)]).some THEN ClassOf(lines[Len(lines)])
    ELSE LastClass(SubSeq(lines, 1, Len(lines) - 1))

\* C32: while the bus channel is open the tray's state is the state mapped
\* from the class of the last processed line that was valid JSON with a
\* string class, Idle when there was none; other lines change nothing; and
\* the lines are processed in the order the bus sent them.
C32_TrayFollowsLastClass ==
    /\ tray.pc = "run" =>
          tray.state = IF LastClass(tray.seen).some
                       THEN from_class(ClassName(LastClass(tray.seen).val))
                       ELSE "Idle"
    /\ tray.seen \o tray.bridge \o tray.rx = tray.sent

\* a recording record, then a record cut short and an object without class:
\* the tray still shows Recording
C32_Witness ==
    /\ tray.pc = "run"
    /\ Len(tray.seen) = 3
    /\ ClassOf(tray.seen[1]) = Some(S_recording)
    /\ ~ParseJson(tray.seen[2]).ok
    /\ ParseJson(tray.seen[3]).ok /\ ~ClassOf(tray.seen[3]).some
    /\ tray.state = "Recording"

\* C36: the tray is in Stopped only once the bus channel has closed or when
\* the last class it processed is `stopped`; no other class, known or not,
\* puts it there.
C36_StoppedOnlyFromStopped ==
    (tray.pc = "run" /\ tray.state = "Stopped") =>
        LastClass(tray.seen) = Some(S_stopped)

(***************************************************************************)
(* Activation of the application: launch, on_activate                      *)
(***************************************************************************)
\* launch(open_settings): the three statics, no window, nothing started
InitApp ==
    app \in [OPEN_SETTINGS : BOOLEAN, TRAY_STARTED : {FALSE},
             OVERLAY_STARTED : {FALSE}, window : {FALSE},
             trayStarts : {0}, overlayStarts : {0},
             activations : {0}, passed : {0}]

\* bug variant: the guards are read and set, but not acted on
on_activate_unguarded ==
    /\ app.activations < MaxActivations
    /\ app' = IF app.window
              THEN [app EXCEPT !.activations = @ + 1]
              ELSE [app EXCEPT !.activations = @ + 1,
                               !.passed = @ + 1,
                               !.TRAY_STARTED = TRUE,
                               !.trayStarts = @ + 1,
                               !.window = app.OPEN_SETTINGS,
                               !.OPEN_SETTINGS = FALSE,
                               !.OVERLAY_STARTED = TRUE,
                               !.overlayStarts = @ + 1]
    /\ UNCHANGED ov

\* on_activate: present the window if there is one; else start the tray if
\* TRAY_STARTED.swap(true) was false, show the settings if asked to, start
\* the status monitor if OVERLAY_STARTED.swap(true) was false
on_activate ==
    /\ app.activations < MaxActivations
    /\ app' = IF app.window
              THEN [app EXCEPT !.activations = @ + 1]
              ELSE [app EXCEPT !.activations = @ + 1,
                               !.passed = @ + 1,
                               !.TRAY_STARTED = TRUE,
                               !.trayStarts =
                                   IF app.TRAY_STARTED THEN @ ELSE @ + 1,
                               !.window = app.OPEN_SETTINGS,
                               !.OPEN_SETTINGS = FALSE,
                               !.OVERLAY_STARTED = TRUE,
                               !.overlayStarts =
                                   IF app.OVERLAY_STARTED THEN @ ELSE @ + 1]
    /\ UNCHANGED ov

\* the open-settings action of the running application: show_settings
OpenSettings ==
    /\ app.activations > 0
    /\ ~app.window
    /\ app' = [app EXCEPT !.window = TRUE]
    /\ UNCHANGED ov

\* the user closes the settings window
CloseSettings ==
    /\ app.window
    /\ app' = [app EXCEPT !.window = FALSE]
    /\ UNCHANGED ov

(***************************************************************************)
(* The overlay: its data, its window, the status monitor's poll            *)
(***************************************************************************)
\* const WAVEFORM_BARS: usize = 24
WAVEFORM_BARS == 24

\* the records `voxtype status --follow --format json` prints for the
\* overlay's monitor thread
OverlayLines ==
    LET icons == CHOOSE i \in IconSets : i.idle = <<"I">>
    IN {format_state_json_with_level(S_recording, icons, None, Level(5)),
        format_state_json_with_level(S_recording, icons, None, NoLevel),
        format_state_json(S_transcribing, icons, None),
        format_state_json(S_idle, icons, None),
        format_state_json(S_stopped, icons, None)}

\* OverlayData::default() behind a window that starts hidden; timers counts
\* the auto-hide timers waiting to fire
InitOverlay ==
    ov = [state |-> "Hidden", level |-> 0,
          levels_history |-> [i \in 1..WAVEFORM_BARS |-> 0],
          visible |-> FALSE, timers |-> 0, chan |-> <<>>,
          delivered |-> 0, cancelled |-> FALSE, fresh |-> FALSE,
          last |-> <<>>, prev |-> "Hidden"]

show_recording(d) ==
    [d EXCEPT !.state = "Recording",
              !.levels_history = [i \in 1..WAVEFORM_BARS |-> 0],
              !.visible = TRUE,
              !.cancelled = FALSE]

show_transcribing(d) == [d EXCEPT !.state = "Transcribing"]

\* the state becomes Error and a 5 s timer is set that hides the window
show_error(d) == [d EXCEPT !.state = "Error", !.timers = @ + 1]

hide(d) == [d EXCEPT !.state = "Hidden", !.visible = FALSE]

\* bug variant: the history is never trimmed
update_level_growing(d, level) ==
    [d EXCEPT !.level = level,
              !.levels_history = Append(@, level)]

\* push(level), then remove(0) when the history is longer than WAVEFORM_BARS
update_level(d, level) ==
    LET pushed == Append(d.levels_history, level)
    IN [d EXCEPT !.level = level,
                 !.levels_history = IF Len(pushed) > WAVEFORM_BARS
                                    THEN Tail(pushed) ELSE pushed]

\* match class { .. } of the poll closure
MatchClass(d, class, level) ==
    CASE class = S_recording ->
            IF d.prev # "Recording"
            THEN show_recording(update_level(d, level))
            ELSE update_level(d, level)
      [] class = S_transcribing ->
            IF d.prev # "Transcribing" THEN show_transcribing(d) ELSE d
      [] class = S_idle ->
            IF d.prev \in {"Recording", "Transcribing"} THEN hide(d) ELSE d
      [] class = S_stopped ->
            IF d.prev \in {"Recording", "Transcribing"}
            THEN show_error(d) ELSE d
      [] OTHER -> d

\* json.get("class").and_then(|v| v.as_str()).unwrap_or("")
ClassOrEmpty(json) ==
    IF HasField(json, "class") /\ ~FieldValue(json, "class").num
    THEN FieldValue(json, "class").str ELSE <<>>

\* json.get("level").and_then(|v| v.as_f64()).unwrap_or(0.0)
LevelOrZero(json) ==
    IF HasField(json, "level") /\ FieldValue(json, "level").num
    THEN FieldValue(json, "level").n ELSE 0

\* the body of `while let Ok(line) = rx.try_recv()` for one line; last and
\* prev note the class of the line and the state it found
ProcessParsed(d, json) ==
    IF ~json.ok THEN d
    ELSE MatchClass([d EXCEPT !.last = ClassOrEmpty(json), !.prev = d.state],
                    ClassOrEmpty(json), LevelOrZero(json))

ProcessLine(d, line) == ProcessParsed(d, ParseJson(line))

RECURSIVE ProcessLines(_, _)
ProcessLines(d, lines) ==
    IF lines = <<>> THEN d
    ELSE ProcessLines(ProcessLine(d, Head(lines)), Tail(lines))

\* the application after its first activation: start_status_monitor runs
AppRunning ==
    app = [OPEN_SETTINGS |-> FALSE, TRAY_STARTED |-> TRUE,
           OVERLAY_STARTED |-> TRUE, window |-> FALSE,
           trayStarts |-> 1, overlayStarts |-> 1,
           activations |-> 1, passed |-> 1]

\* the monitor thread reads a line of its subprocess and sends it
StatusLine(l) ==
    /\ app.overlayStarts > 0
    /\ ov.delivered < MaxOverlayLines
    /\ ov' = [ov EXCEPT !.chan = Append(@, l), !.delivered = @ + 1]
    /\ UNCHANGED app

\* the 50 ms poll of the main loop finds lines and processes them all
PollStatus ==
    /\ app.overlayStarts > 0
    /\ ov.chan # <<>>
    /\ ov' = [ProcessLines(ov, ov.chan) EXCEPT !.chan = <<>>, !.fresh = TRUE]
    /\ UNCHANGED app

\* an auto-hide timer set by show_error fires: w.set_visible(false)
AutoHideFires ==
    /\ ov.timers > 0
    /\ ov' = [ov EXCEPT !.timers = @ - 1, !.visible = FALSE, !.fresh = FALSE]
    /\ UNCHANGED app

\* the cancel button or ESC: `voxtype record cancel` is spawned and the
\* window hidden
CancelClicked ==
    /\ ov.visible
    /\ ov' = [ov EXCEPT !.visible = FALSE, !.cancelled = TRUE,
                        !.fresh = FALSE]
    /\ UNCHANGED app

OverlayIdle ==
    /\ InitOverlay
    /\ app = [OPEN_SETTINGS |-> FALSE, TRAY_STARTED |-> FALSE,
              OVERLAY_STARTED |-> FALSE, window |-> FALSE,
              trayStarts |-> 0, overlayStarts |-> 0,
              activations |-> 0, passed |-> 0]

NextApp ==
    \/ on_activate
    \/ OpenSettings
    \/ CloseSettings

NextOverlay ==
    \/ \E l \in OverlayLines : StatusLine(l)
    \/ PollStatus
    \/ AutoHideFires
    \/ CancelClicked

(***************************************************************************)
(* Properties of the activation and of the overlay                         *)
(***************************************************************************)
\* C33: right after the overlay processed a `recording` line its state is
\* Recording and its window is visible (unless the user cancelled since the
\* recording was shown); right after it processed an `idle` line while in
\* Recording or Transcribing its state is Hidden and its window not visible.
C33_OverlayFollowsDaemon ==
    /\ (ov.fresh /\ ov.last = S_recording) =>
          ov.state = "Recording" /\ (ov.visible \/ ov.cancelled)
    /\ (ov.fresh /\ ov.last = S_idle
            /\ ov.prev \in {"Recording", "Transcribing"}) =>
          ov.state = "Hidden" /\ ~ov.visible

\* C34: while the overlay's state is Recording and the user has not
\* cancelled since the recording was shown, the window is visible; no
\* auto-hide timer of an earlier error hides it.
C34_RecordingWindowVisible ==
    (ov.state = "Recording" /\ ~ov.cancelled) => ov.visible

\* C39: over any sequence of activations the tray icon and the overlay's
\* status monitor are each started at most once.
C39_StartedAtMostOnce ==
    app.trayStarts <= 1 /\ app.overlayStarts <= 1

\* two activations got past the window test; both were started once
C39_Witness ==
    /\ app.passed >= 2
    /\ app.trayStarts = 1 /\ app.overlayStarts = 1

\* the levels an update can carry, in tenths
OverlayLevels == {0, 5, 10}

\* C40: the level history always holds exactly WAVEFORM_BARS entries, and
\* an update_level on it drops the oldest entry and appends the new level as
\* the newest.
C40_HistoryKeepsItsLength ==
    /\ Len(ov.levels_history) = WAVEFORM_BARS
    /\ \A level \in OverlayLevels :
          update_level(ov, level).levels_history =
              Append(Tail(ov.levels_history), level)

\* levels were pushed during a recording: the newest entries are 0.5, 0.0
C40_Witness ==
    /\ ov.state = "Recording"
    /\ ov.levels_history[WAVEFORM_BARS] = 0
    /\ ov.levels_history[WAVEFORM_BARS - 1] = 5

\* the line println! writes for a record of the status command
PrintedLine(r) ==
    IF st.format = "json"
    THEN format_state_json_with_level(
             r.state, CHOOSE icons \in IconSets : icons.idle = <<"I">>,
             None, r.level)
    ELSE r.state

\* C38: follow mode never prints two consecutive identical lines, in either
\* format.
C38_NoRepeatedLine ==
    \A i \in Printed : i > 1 => PrintedLine(out[i]) # PrintedLine(out[i - 1])

\* the parts of the state a specification does not exercise stay put
BusIdle ==
    /\ busPc = "off"
    /\ busLog = <<>>
    /\ childAlive = <<>>
    /\ rxAlive = [c \in Consumers |-> TRUE]
    /\ chan = [c \in Consumers |-> <<>>]
    /\ received = [c \in Consumers |-> <<>>]

FanOutIdle ==
    /\ foPc = "off"
    /\ foAlive = <<>>
    /\ foChans = <<>>
    /\ foRet = FALSE

GuiIdle == TrayIdle /\ OverlayIdle

(***************************************************************************)
(* Specifications                                                          *)
(***************************************************************************)
Init ==
    InitBus /\ FanOutIdle /\ RecordIdle /\ StatusIdle /\ FormatIdle /\ GuiIdle
Next ==
    /\ NextBus
    /\ UNCHANGED foVars /\ UNCHANGED recVars /\ UNCHANGED stVars
    /\ UNCHANGED fmtVars /\ UNCHANGED guiVars
Spec == Init /\ [][Next]_vars

FanOutInit ==
    InitFanOut /\ BusIdle /\ RecordIdle /\ StatusIdle /\ FormatIdle /\ GuiIdle
FanOutNext ==
    /\ FanOutCall
    /\ UNCHANGED busVars /\ UNCHANGED recVars /\ UNCHANGED stVars
    /\ UNCHANGED fmtVars /\ UNCHANGED guiVars
SpecFanOut == FanOutInit /\ [][FanOutNext]_vars

RecordInit ==
    InitRecord /\ BusIdle /\ FanOutIdle /\ StatusIdle /\ FormatIdle /\ GuiIdle
RecordNext ==
    /\ NextRecord
    /\ UNCHANGED busVars /\ UNCHANGED foVars /\ UNCHANGED stVars
    /\ UNCHANGED fmtVars /\ UNCHANGED guiVars
SpecRecord == RecordInit /\ [][RecordNext]_vars

RaceInit ==
    InitRace /\ BusIdle /\ FanOutIdle /\ StatusIdle /\ FormatIdle /\ GuiIdle
SpecRace == RaceInit /\ [][RecordNext]_vars

StatusInit == InitStatus /\ BusIdle /\ FanOutIdle /\ FormatIdle /\ GuiIdle
StatusNext ==
    /\ NextStatus /\ UNCHANGED busVars /\ UNCHANGED foVars
    /\ UNCHANGED fmtVars /\ UNCHANGED guiVars
SpecStatus == StatusInit /\ [][StatusNext]_vars

FormatInit ==
    InitFormat /\ BusIdle /\ FanOutIdle /\ RecordIdle /\ StatusIdle /\ GuiIdle
FormatNext ==
    /\ NextFormat
    /\ UNCHANGED busVars /\ UNCHANGED foVars /\ UNCHANGED recVars
    /\ UNCHANGED stVars /\ UNCHANGED guiVars
SpecFormat == FormatInit /\ [][FormatNext]_vars

TrayInit ==
    /\ InitTray /\ OverlayIdle
    /\ BusIdle /\ FanOutIdle /\ RecordIdle /\ StatusIdle /\ FormatIdle
TrayNext ==
    /\ NextTray
    /\ UNCHANGED busVars /\ UNCHANGED foVars /\ UNCHANGED recVars
    /\ UNCHANGED stVars /\ UNCHANGED fmtVars /\ UNCHANGED <<ov, app>>
SpecTray == TrayInit /\ [][TrayNext]_vars

AppInit ==
    /\ InitApp /\ InitOverlay /\ TrayIdle
    /\ BusIdle /\ FanOutIdle /\ RecordIdle /\ StatusIdle /\ FormatIdle
AppNext ==
    /\ NextApp
    /\ UNCHANGED busVars /\ UNCHANGED foVars /\ UNCHANGED recVars
    /\ UNCHANGED stVars /\ UNCHANGED fmtVars /\ UNCHANGED tray
SpecApp == AppInit /\ [][AppNext]_vars

OverlayInit ==
    /\ AppRunning /\ InitOverlay /\ TrayIdle
    /\ BusIdle /\ FanOutIdle /\ RecordIdle /\ StatusIdle /\ FormatIdle
OverlayNext ==
    /\ NextOverlay
    /\ UNCHANGED busVars /\ UNCHANGED foVars /\ UNCHANGED recVars
    /\ UNCHANGED stVars /\ UNCHANGED fmtVars /\ UNCHANGED tray
SpecOverlay == OverlayInit /\ [][OverlayNext]_vars

\* the bus thread gets to run (its sleeps end), and a consumer that has a
\* line waiting takes it; a subprocess may stay silent for ever
BusThreadStep ==
    /\ SpawnOk \/ SpawnFail \/ NotifyStopped
    /\ UNCHANGED foVars /\ UNCHANGED recVars /\ UNCHANGED stVars
    /\ UNCHANGED fmtVars /\ UNCHANGED guiVars
ConsumerStep(c) ==
    /\ ConsumerRecv(c)
    /\ UNCHANGED foVars /\ UNCHANGED recVars /\ UNCHANGED stVars
    /\ UNCHANGED fmtVars /\ UNCHANGED guiVars
SpecLive ==
    /\ Init /\ [][Next]_vars
    /\ WF_vars(BusThreadStep)
    /\ \A c \in Consumers : WF_vars(ConsumerStep(c))

====
